---------------------------- MODULE Spec2Model ----------------------------
(***************************************************************************)
(* StudyBot: the per-session dialogue orchestrator (StudyBotAgent), its    *)
(* Field Tracker (FieldManager), Conversation Log (ConversationManager),   *)
(* Action Dispatcher (ActionExecutor), Confirmation Classifier, Checkpoint *)
(* Store (CheckpointManager) and the process-wide session table of         *)
(* Websocket.py.                                                           *)
(*                                                                         *)
(* Abstractions, stated once:                                              *)
(*  - the form schema keeps two of the twelve fields, "Problem" (read by   *)
(*    the auto-triggered retrieval) and "Discipline" (returned by every    *)
(*    mock retrieval scenario); "Budget" stands for any non-schema key;    *)
(*  - a field value is the empty string or the non-empty string "a";      *)
(*  - a message is one of a few texts, each spelled out as a sequence of   *)
(*    characters so that lower(), strip() and the substring tests of the   *)
(*    keyword fallback are computed;                                       *)
(*  - the text of an assistant entry is one token, "reply": it is built    *)
(*    from the response and never read back;                               *)
(*  - time stamps and the language-model session's own history are left    *)
(*    out: no modelled decision reads them;                                *)
(*  - confidences and progress are kept in tenths (0.6 is 6, 50.0% is 500).*)
(***************************************************************************)
EXTENDS Integers, Sequences, FiniteSets, TLC

VARIABLES
    agents,         \* instance -> StudyBotAgent object (fields, session, conversation), or NoAgent
    active_agents,  \* Websocket.active_agents[id] for the one conversation id: instance, or 0
    disk,           \* checkpoints/checkpoint_<id>.json: Absent, Corrupt, or a checkpoint record
    response,       \* what the last entry point answered (type and payload)
    autoRag,        \* history: retrieval searches issued by _auto_trigger_rag in this session's lifetime
    threads         \* background tasks and socket handlers in flight (interleaved specifications)

vars == <<agents, active_agents, disk, response, autoRag, threads>>

---------------------------------------------------------------------------
(* Bounds of the model *)

MaxHistory == 2      \* the log cap (Config.MAX_HISTORY is 50)
MaxAutoRag == 2      \* auto-triggered searches counted per session lifetime
MaxCap == 2          \* largest max_history a ConversationManager is built with
MaxLog == 3          \* entries handed to one ConversationManager, or held by one snapshot
MaxInstances == 2    \* StudyBotAgent objects alive at once for the one conversation id

(* Program constants *)

SchemaSize == 12                \* fields in FieldManager.FORM_SCHEMA
FallbackDecisionConfidence == 3 \* confidence=0.3 of _fallback_decision, in tenths
ConfidenceThreshold == 6   \* confirmation.confidence > 0.6, in tenths
FallbackConfidence == 7    \* _fallback_detection: confidence=0.7, in tenths

---------------------------------------------------------------------------
(* Values *)

None == "None"                     \* Python None where a string may stand
NoneMap == [None |-> "None"]       \* Python None where a mapping may stand

FieldNames == {"Problem", "Discipline"}      \* FieldManager.FORM_SCHEMA (two of twelve)
Keys == FieldNames \cup {"Budget"}           \* "Budget": a key outside the schema
Values == {"", "a"}

Truthy(v) == v # None /\ v # ""              \* Python truthiness of Optional[str]

Instances == 1..MaxInstances

EmptyMap == [k \in {} |-> ""]
Both == ("Problem" :> "a") @@ ("Discipline" :> "a")     \* fills the whole form
Mixed == ("Discipline" :> "a") @@ ("Budget" :> "a")     \* a schema key and a foreign one

\* the mappings str -> str the collaborators hand in: the empty one, every
\* single entry over Keys and Values, and the two two-entry ones above
Mappings == {EmptyMap, Both, Mixed} \cup {k :> v : k \in Keys, v \in Values}
TruthyMap(m) == m # NoneMap /\ DOMAIN m # {}  \* Python truthiness of Optional[Dict]

---------------------------------------------------------------------------
(* FieldManager (services/field_manager.py) *)

NewFields == [f \in FieldNames |-> None]

\* variant: a field that already holds a value is not overwritten
update_fields_keep(fields, updates) ==
    [f \in FieldNames |-> IF f \in DOMAIN updates /\ fields[f] = None
                          THEN updates[f] ELSE fields[f]]

update_fields(fields, updates) ==
    [f \in FieldNames |-> IF f \in DOMAIN updates THEN updates[f] ELSE fields[f]]

\* the dictionary update_fields returns: the entries actually applied
updated_subset(updates) ==
    [k \in DOMAIN updates \cap FieldNames |-> updates[k]]

get_field(fields, name) == IF name \in FieldNames THEN fields[name] ELSE None

get_filled_fields(fields) ==
    [f \in {g \in FieldNames : Truthy(fields[g])} |-> fields[f]]

get_empty_fields(fields) == {f \in FieldNames : ~Truthy(fields[f])}

\* variant: the percentage is cut off after the first decimal
round_pct_floor(filled, total) == (filled * 1000) \div total

\* round((filled / total) * 100, 1), in tenths of a percent
round_pct(filled, total) == (2 * filled * 1000 + total) \div (2 * total)

calculate_progress(fields) ==
    LET total == Cardinality(FieldNames)
        filled == Cardinality({f \in FieldNames : Truthy(fields[f])})
    IN round_pct(filled, total)

\* variant: one filled field is enough
is_complete_any(fields) == \E f \in FieldNames : Truthy(fields[f])

is_complete(fields) == \A f \in FieldNames : Truthy(fields[f])

fields_to_dict(fields) == fields

\* variant: every stored key is taken over, in the schema or not
fields_from_dict_any_key(fields, data) ==
    [f \in FieldNames \cup DOMAIN data |-> IF f \in DOMAIN data THEN data[f] ELSE fields[f]]

\* variant: the stored values are not read back
fields_from_dict_fresh(fields, data) == fields

fields_from_dict(fields, data) ==
    [f \in FieldNames |-> IF f \in DOMAIN data THEN data[f] ELSE fields[f]]

---------------------------------------------------------------------------
(* ConversationManager (agent/conversation_manager.py) *)

\* the Python slice s[-n:] for n >= 0 (s[-0:] is the whole list)
SliceLast(s, n) ==
    IF n = 0 \/ Len(s) <= n THEN s ELSE SubSeq(s, Len(s) - n + 1, Len(s))

\* variant: the new entry is put in front
add_message_front(history, role, content, action) ==
    LET appended == <<[role |-> role, content |-> content, action |-> action]>> \o history
    IN IF Len(appended) > MaxHistory THEN SliceLast(appended, MaxHistory) ELSE appended

\* add_message of a ConversationManager built with max_history
add_message_max(history, role, content, action, max_history) ==
    LET appended == Append(history, [role |-> role, content |-> content, action |-> action])
    IN IF Len(appended) > max_history THEN SliceLast(appended, max_history) ELSE appended

\* from_dict of a ConversationManager built with max_history
from_dict_max(history, max_history) == SliceLast(history, max_history)

\* the agent's log: ConversationManager(max_history=Config.MAX_HISTORY)
add_message(history, role, content, action) ==
    add_message_max(history, role, content, action, MaxHistory)

conversation_to_dict(history) == history

conversation_from_dict(history) == from_dict_max(history, MaxHistory)

---------------------------------------------------------------------------
(* Models (models/action_types.py, models/decisions.py) *)

ActionType == {"suggest_fields", "update_field", "search_rag", "apply_suggestions",
               "submit_form", "clarify", "generic_response"}

AgentDecision(action, field_name, field_value, search_query, suggested_fields) ==
    [action |-> action, field_name |-> field_name, field_value |-> field_value,
     search_query |-> search_query, suggested_fields |-> suggested_fields]

ConfirmationDetection(is_conf, is_rej, is_mod, confidence, mods) ==
    [is_confirmation |-> is_conf, is_rejection |-> is_rej,
     is_modification_request |-> is_mod, confidence |-> confidence,
     extracted_modifications |-> mods]

Response(type, payload) == [type |-> type, payload |-> payload]

---------------------------------------------------------------------------
(* RAGService (services/rag_service.py) *)

RagResult(found, n) == [found_fields |-> found, num_results |-> n]

Raised == [found_fields |-> NoneMap, num_results |-> -1]   \* the call raised

\* search(): the mock lower-cases the query, so a None query raises; otherwise
\* the collaborator's answer `out` is returned
search(query, out) == IF query = None THEN Raised ELSE out

---------------------------------------------------------------------------
(* DecisionMaker (agent/decision_maker.py) *)

LlmFailed == [failed |-> TRUE]    \* the model call raised, or its text did not parse or validate

\* variant: the failure is answered with a search decision that has no query
_fallback_decision_searches ==
    AgentDecision("search_rag", None, None, None, NoneMap)
    @@ [message_to_user |-> "I'm having trouble understanding. Could you rephrase that?",
        requires_user_input |-> TRUE, confidence |-> FallbackDecisionConfidence]

_fallback_decision ==
    AgentDecision("clarify", None, None, None, NoneMap)
    @@ [message_to_user |-> "I'm having trouble understanding. Could you rephrase that?",
        requires_user_input |-> TRUE, confidence |-> FallbackDecisionConfidence]

decide_action(llm) == IF llm = LlmFailed THEN _fallback_decision ELSE llm

---------------------------------------------------------------------------
(* ConfirmationHandler (agent/confirmation_handler.py) *)

\* "incorrect" is one of RejectWords and holds the ConfirmWord "correct"
Messages == {"Yes", "incorrect"}

\* the characters of the texts and keywords used
Chars(str) ==
    CASE str = "yes"        -> <<"y", "e", "s">>
      [] str = "no"         -> <<"n", "o">>
      [] str = "Yes"        -> <<"Y", "e", "s">>
      [] str = "hm"         -> <<"h", "m">>
      [] str = "ok"         -> <<"o", "k">>
      [] str = "yeah"       -> <<"y", "e", "a", "h">>
      [] str = "sure"       -> <<"s", "u", "r", "e">>
      [] str = "looks good" -> <<"l", "o", "o", "k", "s", " ", "g", "o", "o", "d">>
      [] str = "apply"      -> <<"a", "p", "p", "l", "y">>
      [] str = "correct"    -> <<"c", "o", "r", "r", "e", "c", "t">>
      [] str = "nope"       -> <<"n", "o", "p", "e">>
      [] str = "wrong"      -> <<"w", "r", "o", "n", "g">>
      [] str = "incorrect"  -> <<"i", "n", "c", "o", "r", "r", "e", "c", "t">>
      [] str = "don't"      -> <<"d", "o", "n", "'", "t">>
      [] str = "cancel"     -> <<"c", "a", "n", "c", "e", "l">>

ConfirmWords == {"ok", "yes", "yeah", "sure", "looks good", "apply", "correct"}
RejectWords == {"no", "nope", "wrong", "incorrect", "don't", "cancel"}

LowerChar(c) == CASE c = "N" -> "n" [] c = "Y" -> "y" [] OTHER -> c

lower(cs) == [i \in 1..Len(cs) |-> LowerChar(cs[i])]

RECURSIVE strip(_)
strip(cs) ==
    IF cs = <<>> THEN cs
    ELSE IF Head(cs) = " " THEN strip(Tail(cs))
    ELSE IF cs[Len(cs)] = " " THEN strip(SubSeq(cs, 1, Len(cs) - 1))
    ELSE cs

\* Python's `word in text` on strings
Contains(text, word) ==
    \E i \in 1..(Len(text) - Len(word) + 1) : SubSeq(text, i, i + Len(word) - 1) = word

\* variant: a text that matched a confirm word is not tested for reject words
_fallback_detection_exclusive(message) ==
    LET msg_lower == strip(lower(Chars(message)))
        is_conf == \E w \in ConfirmWords : Contains(msg_lower, Chars(w))
        is_rej == ~is_conf /\ \E w \in RejectWords : Contains(msg_lower, Chars(w))
    IN ConfirmationDetection(is_conf, is_rej, FALSE, FallbackConfidence, NoneMap)

_fallback_detection(message) ==
    LET msg_lower == strip(lower(Chars(message)))
        is_conf == \E w \in ConfirmWords : Contains(msg_lower, Chars(w))
        is_rej == \E w \in RejectWords : Contains(msg_lower, Chars(w))
    IN ConfirmationDetection(is_conf, is_rej, FALSE, FallbackConfidence, NoneMap)

detect_confirmation(message, llm) ==
    IF llm = LlmFailed THEN _fallback_detection(message) ELSE llm

---------------------------------------------------------------------------
(* ActionExecutor (agent/action_executor.py): a handler maps the Field      *)
(* Tracker and a decision to the Field Tracker afterwards and the response  *)
(* returned; raised is TRUE when the handler raised instead                 *)

Executed(fields, resp) == [fields |-> fields, response |-> resp, raised |-> FALSE]

\* variant: the suggested values are stored at once
_execute_suggest_fields_stores(fields, decision) ==
    IF ~TruthyMap(decision.suggested_fields)
    THEN Executed(fields, Response("error", NoneMap))
    ELSE Executed(update_fields(fields, decision.suggested_fields),
                  Response("suggestion_pending", decision.suggested_fields))

_execute_suggest_fields(fields, decision) ==
    IF ~TruthyMap(decision.suggested_fields)
    THEN Executed(fields, Response("error", NoneMap))
    ELSE Executed(fields, Response("suggestion_pending", decision.suggested_fields))

_execute_update_field(fields, decision) ==
    IF ~Truthy(decision.field_name) \/ ~Truthy(decision.field_value)
    THEN Executed(fields, Response("error", NoneMap))
    ELSE Executed(update_fields(fields, decision.field_name :> decision.field_value),
                  Response("field_updated", decision.field_name :> decision.field_value))

_execute_search_rag(fields, decision, rag) ==
    LET results == search(decision.search_query, rag) IN
    IF results = Raised
    THEN [fields |-> fields, response |-> Response("exception", NoneMap), raised |-> TRUE]
    ELSE IF results.num_results > 0 /\ TruthyMap(results.found_fields)
    THEN Executed(fields, Response("suggestion_pending", results.found_fields))
    ELSE Executed(fields, Response("no_results", NoneMap))

_execute_submit_form(fields, decision) ==
    IF ~is_complete(fields)
    THEN Executed(fields, Response("incomplete", NoneMap))
    ELSE Executed(fields, Response("submitted", get_filled_fields(fields)))

_execute_clarify(fields, decision) == Executed(fields, Response("clarify", NoneMap))

_execute_generic_response(fields, decision) ==
    Executed(fields, Response("generic_response", NoneMap))

\* variant: an action without a handler raises
_execute_fallback_raises(fields, decision) ==
    [fields |-> fields, response |-> Response("exception", NoneMap), raised |-> TRUE]

_execute_fallback(fields, decision) == Executed(fields, Response("error", NoneMap))

execute(fields, decision, rag) ==
    CASE decision.action = "suggest_fields"   -> _execute_suggest_fields(fields, decision)
      [] decision.action = "update_field"     -> _execute_update_field(fields, decision)
      [] decision.action = "search_rag"       -> _execute_search_rag(fields, decision, rag)
      [] decision.action = "submit_form"      -> _execute_submit_form(fields, decision)
      [] decision.action = "clarify"          -> _execute_clarify(fields, decision)
      [] decision.action = "generic_response" -> _execute_generic_response(fields, decision)
      [] OTHER                                -> _execute_fallback(fields, decision)

---------------------------------------------------------------------------
(* CheckpointManager (storage/checkpoint_manager.py): the file of one id *)

Absent == [file |-> "absent"]                 \* no checkpoint file
Corrupt == [file |-> "partial"]               \* a truncated or partly written file
Complete(data) == [file |-> "complete", data |-> data]

\* how one call of save() can end: written; open() raised (file untouched);
\* json.dump raised after open(filepath, 'w') truncated the file
SaveOutcomes == {"ok", "open_failed", "write_failed"}

\* variant: a failed save is reported as a success
save_reports_ok(file, checkpoint_data, outcome) ==
    CASE outcome = "ok"           -> [file |-> Complete(checkpoint_data), result |-> TRUE]
      [] outcome = "open_failed"  -> [file |-> file, result |-> TRUE]
      [] outcome = "write_failed" -> [file |-> Corrupt, result |-> TRUE]

save(file, checkpoint_data, outcome) ==
    CASE outcome = "ok"           -> [file |-> Complete(checkpoint_data), result |-> TRUE]
      [] outcome = "open_failed"  -> [file |-> file, result |-> FALSE]
      [] outcome = "write_failed" -> [file |-> Corrupt, result |-> FALSE]

\* the record, or NoneMap when the file is missing or json.load raises
load(file) == IF file.file = "complete" THEN file.data ELSE NoneMap

\* os.remove ran, or raised (delete() then returns False)
DeleteOutcomes == {"ok", "failed"}

\* variant: removing a file that is not there is reported as a failure
delete_strict(file, outcome) ==
    IF file = Absent THEN [file |-> file, result |-> FALSE]
    ELSE IF outcome = "ok" THEN [file |-> Absent, result |-> TRUE]
    ELSE [file |-> file, result |-> FALSE]

delete(file, outcome) ==
    IF file = Absent THEN [file |-> file, result |-> TRUE]
    ELSE IF outcome = "ok" THEN [file |-> Absent, result |-> TRUE]
    ELSE [file |-> file, result |-> FALSE]

exists(file) == file # Absent

---------------------------------------------------------------------------
(* StudyBotAgent (core/studybot_agent.py) *)

NoAgent == [agent |-> "none"]

\* the session dictionary of __init__; the keys "fields" and
\* "conversation_history" exist only once _save_checkpoint has run (NoneMap: no key)
NewSession ==
    [progress_pct |-> 0,
     pending_suggestions |-> NoneMap,
     awaiting_confirmation |-> FALSE,
     rag_search_performed |-> FALSE,
     initial_extraction_done |-> FALSE,
     last_action |-> None,
     fields |-> NoneMap,
     conversation_history |-> NoneMap]

Agent(fields, session, conversation) ==
    [fields |-> fields, session |-> session, conversation |-> conversation]

_initialize_new_session ==
    Agent(NewFields, NewSession, add_message(<<>>, "assistant", "greeting", "greeting"))

_restore_from_checkpoint(checkpoint) ==
    LET session == checkpoint.agent_state
        fields == fields_from_dict(NewFields,
                      IF session.fields = NoneMap THEN EmptyMap ELSE session.fields)
        conversation == IF session.conversation_history = NoneMap THEN <<>>
                        ELSE conversation_from_dict(session.conversation_history)
    IN Agent(fields,
             [session EXCEPT !.progress_pct = calculate_progress(fields)],
             conversation)

\* the constructor raised: checkpoint["agent_state"] on a record without that key
ConstructorRaised == [agent |-> "raised"]

\* __init__: restore when load() returns a non-empty checkpoint, else a fresh
\* session; the restore raises KeyError when the record has no "agent_state"
StudyBotAgent(file) ==
    LET checkpoint == load(file) IN
    IF TruthyMap(checkpoint)
    THEN IF "agent_state" \in DOMAIN checkpoint
         THEN _restore_from_checkpoint(checkpoint)
         ELSE ConstructorRaised
    ELSE _initialize_new_session

\* what a flow hands back: the agent afterwards, the response, whether it
\* raised, and whether _auto_trigger_rag issued a search
Flow(agent, resp, raised, searched) ==
    [agent |-> agent, response |-> resp, raised |-> raised, searched |-> searched]

\* variant: whatever the search found is put up for confirmation, filled
\* fields included, and also when it found nothing
_auto_trigger_rag_unfiltered(fields, session, rag) ==
    LET problem == get_field(fields, "Problem")
        search_query == IF Truthy(problem) THEN problem ELSE "study request"
        results == search(search_query, rag)
    IN [session EXCEPT !.pending_suggestions = results.found_fields,
                       !.awaiting_confirmation = TRUE,
                       !.rag_search_performed = TRUE]

\* variant: the found fields are put up as they are, filled ones included
_auto_trigger_rag_any_found(fields, session, rag) ==
    LET problem == get_field(fields, "Problem")
        search_query == IF Truthy(problem) THEN problem ELSE "study request"
        results == search(search_query, rag)
    IN IF results.num_results > 0 /\ TruthyMap(results.found_fields)
       THEN [session EXCEPT !.pending_suggestions = results.found_fields,
                            !.awaiting_confirmation = TRUE,
                            !.rag_search_performed = TRUE]
       ELSE session

_auto_trigger_rag(fields, session, rag) ==
    LET problem == get_field(fields, "Problem")
        search_query == IF Truthy(problem) THEN problem ELSE "study request"
        results == search(search_query, rag)
        new_suggestions ==
            [k \in {j \in DOMAIN results.found_fields : ~Truthy(get_field(fields, j))}
               |-> results.found_fields[k]]
    IN IF results.num_results > 0 /\ TruthyMap(results.found_fields)
          /\ TruthyMap(new_suggestions)
       THEN [session EXCEPT !.pending_suggestions = new_suggestions,
                            !.awaiting_confirmation = TRUE,
                            !.rag_search_performed = TRUE]
       ELSE session

_handle_regular_flow(a, llm, rag) ==
    LET decision == decide_action(llm)
        s1 == [a.session EXCEPT !.last_action = decision.action]
        ex == execute(a.fields, decision, rag)
        s2 == IF decision.action = "suggest_fields" /\ TruthyMap(decision.suggested_fields)
              THEN [s1 EXCEPT !.pending_suggestions = decision.suggested_fields,
                              !.awaiting_confirmation = TRUE,
                              !.initial_extraction_done = TRUE]
              ELSE s1
    IN IF ex.raised
       THEN Flow(Agent(a.fields, s1, a.conversation), ex.response, TRUE, FALSE)
       ELSE Flow(Agent(ex.fields, s2, a.conversation), ex.response, FALSE, FALSE)

\* variant: the Decision Engine and the Action Dispatcher are run although
\* the session awaits a confirmation (the engine falling back to CLARIFY)
_handle_confirmation_flow_decides(a, message, llm, rag) ==
    _handle_regular_flow(a, LlmFailed, rag)

\* variant: a confirmation is accepted at the threshold confidence too
_handle_confirmation_flow_at_threshold(a, message, llm, rag) ==
    LET confirmation == detect_confirmation(message, llm)
        pending == a.session.pending_suggestions
    IN IF confirmation.is_confirmation /\ confirmation.confidence >= ConfidenceThreshold
       THEN IF pending = NoneMap   \* update_fields(None) raises
            THEN Flow(a, Response("exception", NoneMap), TRUE, FALSE)
            ELSE LET fields == update_fields(a.fields, pending)
                     s1 == [a.session EXCEPT
                               !.awaiting_confirmation = FALSE,
                               !.pending_suggestions = NoneMap,
                               !.progress_pct = calculate_progress(fields)]
                     auto == ~s1.rag_search_performed /\ ~is_complete(fields)
                     s2 == IF auto THEN _auto_trigger_rag(fields, s1, rag) ELSE s1
                 IN Flow(Agent(fields, s2, a.conversation),
                         Response("apply_suggestions", NoneMap), FALSE, auto)
       ELSE IF confirmation.is_modification_request
               /\ TruthyMap(confirmation.extracted_modifications)
       THEN LET fields == update_fields(a.fields, confirmation.extracted_modifications)
                s1 == [a.session EXCEPT
                          !.awaiting_confirmation = FALSE,
                          !.pending_suggestions = NoneMap,
                          !.progress_pct = calculate_progress(fields)]
            IN Flow(Agent(fields, s1, a.conversation),
                    Response("modification", NoneMap), FALSE, FALSE)
       ELSE IF confirmation.is_rejection
       THEN Flow(Agent(a.fields,
                       [a.session EXCEPT !.awaiting_confirmation = FALSE,
                                         !.pending_suggestions = NoneMap],
                       a.conversation),
                 Response("rejection", NoneMap), FALSE, FALSE)
       ELSE Flow(a, Response("unclear_confirmation", NoneMap), FALSE, FALSE)

\* variant: an answer that is none of the three drops the pending set
_handle_confirmation_flow_gives_up(a, message, llm, rag) ==
    LET confirmation == detect_confirmation(message, llm)
        pending == a.session.pending_suggestions
    IN IF confirmation.is_confirmation /\ confirmation.confidence > ConfidenceThreshold
       THEN IF pending = NoneMap   \* update_fields(None) raises
            THEN Flow(a, Response("exception", NoneMap), TRUE, FALSE)
            ELSE LET fields == update_fields(a.fields, pending)
                     s1 == [a.session EXCEPT
                               !.awaiting_confirmation = FALSE,
                               !.pending_suggestions = NoneMap,
                               !.progress_pct = calculate_progress(fields)]
                     auto == ~s1.rag_search_performed /\ ~is_complete(fields)
                     s2 == IF auto THEN _auto_trigger_rag(fields, s1, rag) ELSE s1
                 IN Flow(Agent(fields, s2, a.conversation),
                         Response("apply_suggestions", NoneMap), FALSE, auto)
       ELSE IF confirmation.is_modification_request
               /\ TruthyMap(confirmation.extracted_modifications)
       THEN LET fields == update_fields(a.fields, confirmation.extracted_modifications)
                s1 == [a.session EXCEPT
                          !.awaiting_confirmation = FALSE,
                          !.pending_suggestions = NoneMap,
                          !.progress_pct = calculate_progress(fields)]
            IN Flow(Agent(fields, s1, a.conversation),
                    Response("modification", NoneMap), FALSE, FALSE)
       ELSE IF confirmation.is_rejection
       THEN Flow(Agent(a.fields,
                       [a.session EXCEPT !.awaiting_confirmation = FALSE,
                                         !.pending_suggestions = NoneMap],
                       a.conversation),
                 Response("rejection", NoneMap), FALSE, FALSE)
       ELSE Flow(Agent(a.fields,
                       [a.session EXCEPT !.awaiting_confirmation = FALSE,
                                         !.pending_suggestions = NoneMap],
                       a.conversation),
                 Response("unclear_confirmation", NoneMap), FALSE, FALSE)

_handle_confirmation_flow(a, message, llm, rag) ==
    LET confirmation == detect_confirmation(message, llm)
        pending == a.session.pending_suggestions
    IN IF confirmation.is_confirmation /\ confirmation.confidence > ConfidenceThreshold
       THEN IF pending = NoneMap   \* update_fields(None) raises
            THEN Flow(a, Response("exception", NoneMap), TRUE, FALSE)
            ELSE LET fields == update_fields(a.fields, pending)
                     s1 == [a.session EXCEPT
                               !.awaiting_confirmation = FALSE,
                               !.pending_suggestions = NoneMap,
                               !.progress_pct = calculate_progress(fields)]
                     auto == ~s1.rag_search_performed /\ ~is_complete(fields)
                     s2 == IF auto THEN _auto_trigger_rag(fields, s1, rag) ELSE s1
                 IN Flow(Agent(fields, s2, a.conversation),
                         Response("apply_suggestions", NoneMap), FALSE, auto)
       ELSE IF confirmation.is_modification_request
               /\ TruthyMap(confirmation.extracted_modifications)
       THEN LET fields == update_fields(a.fields, confirmation.extracted_modifications)
                s1 == [a.session EXCEPT
                          !.awaiting_confirmation = FALSE,
                          !.pending_suggestions = NoneMap,
                          !.progress_pct = calculate_progress(fields)]
            IN Flow(Agent(fields, s1, a.conversation),
                    Response("modification", NoneMap), FALSE, FALSE)
       ELSE IF confirmation.is_rejection
       THEN Flow(Agent(a.fields,
                       [a.session EXCEPT !.awaiting_confirmation = FALSE,
                                         !.pending_suggestions = NoneMap],
                       a.conversation),
                 Response("rejection", NoneMap), FALSE, FALSE)
       ELSE Flow(a, Response("unclear_confirmation", NoneMap), FALSE, FALSE)

\* the checkpoint dictionary _save_checkpoint builds, and the session it updates
_save_checkpoint(a) ==
    LET session == [a.session EXCEPT
                       !.fields = fields_to_dict(a.fields),
                       !.conversation_history = conversation_to_dict(a.conversation)]
    IN [agent |-> Agent(a.fields, session, a.conversation),
        checkpoint |-> [agent_state |-> session, version |-> "2.0"]]

\* handle_message up to the classifier call: the user entry is appended and
\* the awaiting_confirmation flag read there routes the turn
TurnBegin(a, message) ==
    Agent(a.fields, a.session, add_message(a.conversation, "user", message, None))

\* handle_message from the classifier's answer to the return: the flow, the
\* assistant entry and the checkpoint save; when the flow raised, neither the
\* assistant entry nor the save happens
TurnFinish(a, awaiting, message, llm, rag, save_outcome, file) ==
    LET flow == IF awaiting THEN _handle_confirmation_flow(a, message, llm, rag)
                ELSE _handle_regular_flow(a, llm, rag)
        tracked == Agent(flow.agent.fields, flow.agent.session,
                         add_message(flow.agent.conversation, "assistant",
                                     "reply", flow.agent.session.last_action))
        cp == _save_checkpoint(tracked)
        saved == save(file, cp.checkpoint, save_outcome)
    IN IF flow.raised
       THEN [agent |-> flow.agent, response |-> flow.response, file |-> file,
             searched |-> flow.searched, saved |-> FALSE, completed |-> FALSE]
       ELSE [agent |-> cp.agent, response |-> flow.response, file |-> saved.file,
             searched |-> flow.searched, saved |-> saved.result, completed |-> TRUE]

handle_message(a, message, llm, rag, save_outcome, file) ==
    TurnFinish(TurnBegin(a, message), a.session.awaiting_confirmation,
               message, llm, rag, save_outcome, file)

---------------------------------------------------------------------------
(* What the collaborators may answer *)

Confidences == {5, 6, 7}     \* in tenths: below, at and above the threshold

DecisionOutputs ==
    {LlmFailed}
    \cup {AgentDecision("suggest_fields", None, None, None, m) : m \in Mappings \cup {NoneMap}}
    \cup {AgentDecision("update_field", n, v, None, NoneMap) :
            n \in Keys \cup {None}, v \in Values \cup {None}}
    \cup {AgentDecision("search_rag", None, None, q, NoneMap) : q \in {None, "query"}}
    \cup {AgentDecision(act, None, None, None, NoneMap) :
            act \in {"submit_form", "clarify", "generic_response", "apply_suggestions"}}

Modifications == {NoneMap, EmptyMap, "Problem" :> "a", Mixed}

ConfirmationOutputs ==
    {LlmFailed}
    \cup {ConfirmationDetection(c, r, m, conf, mods) :
            c \in BOOLEAN, r \in BOOLEAN, m \in BOOLEAN, conf \in Confidences,
            mods \in Modifications}

RagOutputs == {RagResult(m, n) : m \in {EmptyMap, "Discipline" :> "a", Both, Mixed}, n \in {0, 2}}

NoRag == RagResult(EmptyMap, 0)

\* the retrieval answer matters only to a turn that searches
RegularSearches(llm) ==
    llm # LlmFailed /\ llm.action = "search_rag" /\ llm.search_query # None

ConfirmationSearches(a, message, llm) ==
    LET c == detect_confirmation(message, llm) IN
    c.is_confirmation /\ c.confidence > ConfidenceThreshold
    /\ ~a.session.rag_search_performed

---------------------------------------------------------------------------
(* The session table and the entry points (Websocket.py), one turn a step *)

Idle == [t \in {} |-> 0]

\* the agent the session table holds for the conversation id
Resident == agents[active_agents]

Init ==
    /\ agents = [i \in Instances |-> NoAgent]
    /\ active_agents = 0
    /\ disk = Absent
    /\ response = [type |-> "none"]
    /\ autoRag = 0
    /\ threads = Idle

\* join_conversation: get or create the agent, answer with status and history
handle_join ==
    /\ IF active_agents = 0
       THEN LET agent == StudyBotAgent(disk) IN
            IF agent = ConstructorRaised   \* emit('error', 'Failed to create agent')
            THEN /\ response' = [type |-> "create_failed"]
                 /\ UNCHANGED <<agents, active_agents, autoRag>>
            ELSE /\ agents' = [agents EXCEPT ![1] = agent]
                 /\ active_agents' = 1
                 /\ autoRag' = IF load(disk) = NoneMap THEN 0 ELSE autoRag
                 /\ response' = [type |-> "joined", is_new_session |-> TRUE,
                                 conversation_history |->
                                     IF agent.session.conversation_history = NoneMap
                                     THEN <<>> ELSE agent.session.conversation_history]
       ELSE /\ UNCHANGED <<agents, active_agents, autoRag>>
            /\ response' = [type |-> "joined", is_new_session |-> FALSE,
                            conversation_history |->
                                IF agents[active_agents].session.conversation_history = NoneMap
                                THEN <<>> ELSE agents[active_agents].session.conversation_history]
    /\ UNCHANGED <<disk, threads>>

\* send_message for a known id, the background task run to its end; `counted`
\* says whether the history variable autoRag follows the searches issued, and
\* Saves how the checkpoint save of the turn may end
Turn(counted, Saves) ==
    /\ active_agents # 0
    /\ LET a == agents[active_agents] IN
       \E message \in Messages, save_outcome \in Saves :
       \E llm \in IF a.session.awaiting_confirmation
                  THEN ConfirmationOutputs ELSE DecisionOutputs :
       \E rag \in IF (a.session.awaiting_confirmation /\ ConfirmationSearches(a, message, llm))
                     \/ (~a.session.awaiting_confirmation /\ RegularSearches(llm))
                  THEN RagOutputs ELSE {NoRag} :
          LET turn == handle_message(a, message, llm, rag, save_outcome, disk) IN
          /\ agents' = [agents EXCEPT ![active_agents] = turn.agent]
          /\ disk' = turn.file
          /\ response' = turn.response
          /\ autoRag' = IF counted /\ turn.searched /\ autoRag < MaxAutoRag
                        THEN autoRag + 1 ELSE autoRag
    /\ UNCHANGED <<active_agents, threads>>

\* the checkpoint directory is writable: every save of a turn succeeds
send_message == Turn(FALSE, {"ok"})

send_message_counted == Turn(TRUE, {"ok"})

\* StudyBotAgent._send_to_ui: message_data.get("progress_pct",
\* self.session["progress_pct"]); the field views are read from the tracker
_send_to_ui(a, message_data) ==
    [type |-> message_data.type,
     progress_pct |-> IF "progress_pct" \in DOMAIN message_data
                      THEN message_data.progress_pct
                      ELSE a.session.progress_pct,
     filled_fields |-> get_filled_fields(a.fields),
     empty_fields |-> get_empty_fields(a.fields),
     \* message_data.get("conversation_history"): None is shown as << >>
     conversation_history |-> IF "conversation_history" \in DOMAIN message_data
                              THEN message_data.conversation_history
                              ELSE <<>>]

\* ActionExecutor._send_to_ui: progress and both views are computed from the
\* tracker when the event is built
executor_send_to_ui(fields, message_data) ==
    [type |-> message_data.type,
     progress_pct |-> calculate_progress(fields),
     filled_fields |-> get_filled_fields(fields),
     empty_fields |-> get_empty_fields(fields)]

\* the UI events of a turn that left the agent as a and returned result.
\* Each is built after the last write of the turn to the tracker and to
\* session["progress_pct"], so a holds what the emitter read.
ui_events(a, result) ==
    CASE result.type \in {"suggestion_pending", "field_updated", "submitted",
                          "clarify", "generic_response"}
           -> {executor_send_to_ui(a.fields, [type |-> result.type])}
      [] result.type = "apply_suggestions"
           -> {_send_to_ui(a, [type |-> "confirmation",
                               progress_pct |-> a.session.progress_pct])}
              \cup (IF a.session.awaiting_confirmation   \* _auto_trigger_rag suggested
                    THEN {_send_to_ui(a, [type |-> "suggestion"])} ELSE {})
      [] result.type = "modification"
           -> {_send_to_ui(a, [type |-> "modification",
                               progress_pct |-> a.session.progress_pct])}
      [] result.type = "rejection"
           -> {_send_to_ui(a, [type |-> "rejection"])}
      [] result.type = "unclear_confirmation"
           -> {_send_to_ui(a, [type |-> "clarification"])}
      [] OTHER -> {}

\* the UI event the constructor sends: the greeting of a fresh session, or
\* the status of a restored one, which carries the restored log
constructor_events(file) ==
    LET agent == StudyBotAgent(file) IN
    IF agent = ConstructorRaised THEN {}
    ELSE IF TruthyMap(load(file))
    THEN {_send_to_ui(agent, [type |-> "status",
                              progress_pct |-> agent.session.progress_pct,
                              conversation_history |-> agent.conversation])}
    ELSE {_send_to_ui(agent, [type |-> "greeting", progress_pct |-> 0])}

\* websocket_callback of handle_join: del message_dict['conversation_history']
join_websocket_callback(message_dict) ==
    [k \in DOMAIN message_dict \ {"conversation_history"} |-> message_dict[k]]

\* websocket_callback of handle_reset: the event is emitted as it is
reset_websocket_callback(message_dict) == message_dict

\* send_message for an id that is not in the table
send_message_unknown ==
    /\ active_agents = 0
    /\ response' = [type |-> "not_found"]
    /\ UNCHANGED <<agents, active_agents, disk, autoRag, threads>>

\* reset_conversation for a known id: delete the checkpoint, construct anew
handle_reset ==
    /\ active_agents # 0
    /\ \E outcome \in DeleteOutcomes :
         LET deleted == delete(disk, outcome)
             agent == StudyBotAgent(deleted.file)
         IN /\ disk' = deleted.file
            /\ IF agent = ConstructorRaised   \* emit('error', 'Reset failed')
               THEN /\ response' = [type |-> "reset_failed"]
                    /\ UNCHANGED <<agents, autoRag>>
               ELSE /\ agents' = [agents EXCEPT ![active_agents] = agent]
                    /\ autoRag' = IF load(deleted.file) = NoneMap THEN 0 ELSE autoRag
                    /\ response' = [type |-> "conversation_reset"]
    /\ UNCHANGED <<active_agents, threads>>

\* the process stops and starts again: the table is empty, the files remain
Restart ==
    /\ active_agents # 0
    /\ agents' = [i \in Instances |-> NoAgent]
    /\ active_agents' = 0
    /\ response' = [type |-> "none"]
    /\ UNCHANGED <<disk, autoRag, threads>>

Next ==
    \/ handle_join
    \/ send_message
    \/ send_message_unknown
    \/ handle_reset
    \/ Restart

Spec == Init /\ [][Next]_vars

\* the same entry points, with the auto-triggered searches counted
NextCounted ==
    \/ handle_join
    \/ send_message_counted
    \/ send_message_unknown
    \/ handle_reset
    \/ Restart

SpecCounted == Init /\ [][NextCounted]_vars

---------------------------------------------------------------------------
(* The entry points over whatever the checkpoint file holds when the        *)
(* process starts, and the requests that name no session or an unknown one  *)

\* a stored record of an earlier run: a field key outside the schema, a schema
\* key missing, and one log entry more than the cap
StoredSnapshot ==
    [agent_state |->
        [NewSession EXCEPT
            !.fields = ("Problem" :> "a") @@ ("Budget" :> "a"),
            !.conversation_history =
                [i \in 1..(MaxHistory + 1) |->
                    [role |-> IF i % 2 = 1 THEN "user" ELSE "assistant",
                     content |-> IF i % 2 = 1 THEN "Yes" ELSE "reply",
                     action |-> IF i % 2 = 1 THEN None ELSE "clarify"]],
            !.last_action = "clarify"],
     version |-> "2.0"]

\* file contents: none, unparseable, "{}", a JSON object without
\* "agent_state", and a full record
StoredContents ==
    {Absent, Corrupt, Complete(EmptyMap), Complete([version |-> "2.0"]),
     Complete(StoredSnapshot)}

InitStored ==
    /\ agents = [i \in Instances |-> NoAgent]
    /\ active_agents = 0
    /\ disk \in StoredContents
    /\ response = [type |-> "none"]
    /\ autoRag = 0
    /\ threads = Idle

\* join_conversation without a conversation_id
join_invalid ==
    /\ response' = [type |-> "invalid_request"]
    /\ UNCHANGED <<agents, active_agents, disk, autoRag, threads>>

\* send_message without a conversation_id or with an empty text
send_message_invalid ==
    /\ response' = [type |-> "invalid_request"]
    /\ UNCHANGED <<agents, active_agents, disk, autoRag, threads>>

\* get_status for an id that is not in the table
get_status_unknown ==
    /\ active_agents = 0
    /\ response' = [type |-> "not_found"]
    /\ UNCHANGED <<agents, active_agents, disk, autoRag, threads>>

\* variant: the checkpoint is deleted before the table is looked up
reset_unknown_deletes ==
    /\ active_agents = 0
    /\ response' = [type |-> "not_found"]
    /\ disk' = delete(disk, "ok").file
    /\ UNCHANGED <<agents, active_agents, autoRag, threads>>

\* reset_conversation for an id that is not in the table
reset_unknown ==
    /\ active_agents = 0
    /\ response' = [type |-> "not_found"]
    /\ UNCHANGED <<agents, active_agents, disk, autoRag, threads>>

NextStored ==
    \/ handle_join
    \/ join_invalid
    \/ send_message
    \/ send_message_invalid
    \/ send_message_unknown
    \/ get_status_unknown
    \/ handle_reset
    \/ reset_unknown
    \/ Restart

SpecStored == InitStored /\ [][NextStored]_vars

---------------------------------------------------------------------------
(* One turn taken statement by statement (StudyBotAgent.handle_message),    *)
(* with every way the checkpoint save can end. threads holds the position   *)
(* in the turn, the message, the response to return, the result save()      *)
(* gave and, as history, the trace of what the turn has done so far.        *)

StepDecisions ==
    {LlmFailed,
     AgentDecision("suggest_fields", None, None, None, "Problem" :> "a"),
     AgentDecision("update_field", "Discipline", "a", None, NoneMap),
     AgentDecision("search_rag", None, None, None, NoneMap),
     AgentDecision("submit_form", None, None, None, NoneMap)}

StepConfirmations ==
    {LlmFailed,
     ConfirmationDetection(TRUE, FALSE, FALSE, 7, NoneMap),
     ConfirmationDetection(FALSE, FALSE, TRUE, 7, Mixed),
     ConfirmationDetection(FALSE, TRUE, FALSE, 7, NoneMap),
     ConfirmationDetection(FALSE, FALSE, FALSE, 5, NoneMap)}

StepRag == {NoRag, RagResult("Discipline" :> "a", 2)}

NoTurn == [pc |-> "idle", trace |-> <<>>, saved |-> FALSE]

InitSteps ==
    /\ agents = [i \in Instances |-> NoAgent]
    /\ active_agents = 0
    /\ disk = Absent
    /\ response = [type |-> "none"]
    /\ autoRag = 0
    /\ threads = NoTurn

step_join ==
    /\ threads.pc = "idle"
    /\ handle_join

\* self.conversation.add_message("user", message), and the flag is read
step_user_entry ==
    /\ threads.pc = "idle"
    /\ active_agents # 0
    /\ \E message \in Messages :
          /\ agents' = [agents EXCEPT ![active_agents] = TurnBegin(@, message)]
          /\ threads' = [pc |-> "flow", message |-> message,
                         awaiting |-> Resident.session.awaiting_confirmation,
                         trace |-> <<"user_entry">>, saved |-> FALSE]
    /\ UNCHANGED <<active_agents, disk, response, autoRag>>

\* response = await self._handle_confirmation_flow / _handle_regular_flow;
\* an exception raised there ends the turn
step_flow ==
    /\ threads.pc = "flow"
    /\ \E llm \in IF threads.awaiting THEN StepConfirmations ELSE StepDecisions,
          rag \in StepRag :
          LET flow == IF threads.awaiting
                      THEN _handle_confirmation_flow(Resident, threads.message, llm, rag)
                      ELSE _handle_regular_flow(Resident, llm, rag)
          IN /\ agents' = [agents EXCEPT ![active_agents] = flow.agent]
             /\ IF flow.raised
                THEN /\ response' = flow.response
                     /\ threads' = [threads EXCEPT !.pc = "idle",
                                                   !.trace = Append(@, "raised")]
                ELSE /\ UNCHANGED response
                     /\ threads' = [pc |-> "assistant_entry", message |-> threads.message,
                                    awaiting |-> threads.awaiting,
                                    trace |-> Append(threads.trace, "flow"),
                                    saved |-> FALSE, result |-> flow.response]
    /\ UNCHANGED <<active_agents, disk, autoRag>>

\* self.conversation.add_message("assistant", ..., action=last_action)
step_assistant_entry ==
    /\ threads.pc = "assistant_entry"
    /\ agents' = [agents EXCEPT ![active_agents] =
                     Agent(@.fields, @.session,
                           add_message(@.conversation, "assistant", "reply",
                                       @.session.last_action))]
    /\ threads' = [threads EXCEPT !.pc = "save", !.trace = Append(@, "assistant_entry")]
    /\ UNCHANGED <<active_agents, disk, response, autoRag>>

\* self._save_checkpoint(): the save may succeed or fail, its result is dropped
step_save ==
    /\ threads.pc = "save"
    /\ \E save_outcome \in SaveOutcomes :
          LET cp == _save_checkpoint(Resident)
              saved == save(disk, cp.checkpoint, save_outcome)
          IN /\ agents' = [agents EXCEPT ![active_agents] = cp.agent]
             /\ disk' = saved.file
             /\ threads' = [threads EXCEPT !.pc = "return", !.saved = saved.result,
                                           !.trace = Append(@, "save")]
    /\ UNCHANGED <<active_agents, response, autoRag>>

\* return response
step_return ==
    /\ threads.pc = "return"
    /\ response' = threads.result
    /\ threads' = [threads EXCEPT !.pc = "idle", !.trace = Append(@, "return")]
    /\ UNCHANGED <<agents, active_agents, disk, autoRag>>

NextSteps ==
    \/ step_join
    \/ step_user_entry
    \/ step_flow
    \/ step_assistant_entry
    \/ step_save
    \/ step_return

SpecSteps == InitSteps /\ [][NextSteps]_vars

---------------------------------------------------------------------------
(* The socket handlers as threads. Flask-SocketIO runs in async_mode        *)
(* 'threading': every join_conversation event runs in a thread of its own,  *)
(* and every send_message event starts a background task with its own event *)
(* loop. Two join events and two send_message events for the one id.        *)

JoinThreads == {"j1", "j2"}
TurnThreads == {"t1", "t2"}

InitThreads ==
    /\ agents = [i \in Instances |-> NoAgent]
    /\ active_agents = 0
    /\ disk = Absent
    /\ response = [type |-> "none"]
    /\ autoRag = 0
    /\ threads = [t \in JoinThreads \cup TurnThreads |-> [pc |-> "start"]]

\* handle_join up to the test `conversation_id not in active_agents`
join_lookup ==
    \E t \in JoinThreads :
       /\ threads[t].pc = "start"
       /\ threads' = [threads EXCEPT ![t] =
                         [pc |-> IF active_agents = 0 THEN "create" ELSE "get",
                          is_new_session |-> active_agents = 0]]
       /\ UNCHANGED <<agents, active_agents, disk, response, autoRag>>

\* the branch of a new session: construct the agent and put it in the table
join_create ==
    \E t \in JoinThreads :
       /\ threads[t].pc = "create"
       /\ \E i \in Instances :
             /\ agents[i] = NoAgent
             /\ \A j \in Instances : j < i => agents[j] # NoAgent
             /\ agents' = [agents EXCEPT ![i] = StudyBotAgent(disk)]
             /\ active_agents' = i
       /\ threads' = [threads EXCEPT ![t] = [@ EXCEPT !.pc = "get"]]
       /\ UNCHANGED <<disk, response, autoRag>>

\* agent = active_agents[conversation_id], and the answer with the history
join_answer ==
    \E t \in JoinThreads :
       /\ threads[t].pc = "get"
       /\ response' = [type |-> "joined", is_new_session |-> threads[t].is_new_session,
                       conversation_history |->
                           IF Resident.session.conversation_history = NoneMap
                           THEN <<>> ELSE Resident.session.conversation_history]
       /\ threads' = [threads EXCEPT ![t] = [pc |-> "done", agent |-> active_agents]]
       /\ UNCHANGED <<agents, active_agents, disk, autoRag>>

\* handle_message of Websocket.py and the background task up to the first
\* model call: the agent is looked up, the user entry appended, the
\* awaiting_confirmation flag read
turn_begin ==
    \E t \in TurnThreads, message \in Messages :
       /\ threads[t].pc = "start"
       /\ IF active_agents = 0
          THEN /\ response' = [type |-> "not_found"]
               /\ threads' = [threads EXCEPT ![t] = [pc |-> "done", agent |-> 0]]
               /\ UNCHANGED agents
          ELSE /\ agents' = [agents EXCEPT ![active_agents] = TurnBegin(@, message)]
               /\ threads' = [threads EXCEPT ![t] =
                                 [pc |-> "llm", agent |-> active_agents, message |-> message,
                                  awaiting |-> Resident.session.awaiting_confirmation]]
               /\ UNCHANGED response
       /\ UNCHANGED <<active_agents, disk, autoRag>>

\* the background task from the model's answer to its end
turn_finish ==
    \E t \in TurnThreads :
       /\ threads[t].pc = "llm"
       /\ LET a == agents[threads[t].agent]
              th == threads[t]
          IN \E llm \in IF th.awaiting THEN ConfirmationOutputs ELSE DecisionOutputs :
             \E rag \in IF (th.awaiting /\ ConfirmationSearches(a, th.message, llm))
                           \/ (~th.awaiting /\ RegularSearches(llm))
                        THEN RagOutputs ELSE {NoRag} :
                LET turn == TurnFinish(a, th.awaiting, th.message, llm, rag, "ok", disk) IN
                /\ agents' = [agents EXCEPT ![th.agent] = turn.agent]
                /\ disk' = turn.file
                /\ response' = turn.response
                /\ threads' = [threads EXCEPT ![t] = [pc |-> "done", agent |-> th.agent]]
       /\ UNCHANGED <<active_agents, autoRag>>

NextThreads ==
    \/ join_lookup
    \/ join_create
    \/ join_answer
    \/ turn_begin
    \/ turn_finish

SpecThreads == InitThreads /\ [][NextThreads]_vars

---------------------------------------------------------------------------
(* The checkpoint file of one id, save() taken one file operation at a time. *)
(* threads holds the save in progress: the record being written and what     *)
(* the file held when the save began.                                        *)

\* records handed to save(): checkpoints of a new session and of filled forms
StoreRecords ==
    {_save_checkpoint(Agent(update_fields(NewFields, m), NewSession, <<>>)).checkpoint :
        m \in {EmptyMap, "Problem" :> "a", "Discipline" :> "a", Both}}

NoSave == [pc |-> "idle", prior |-> Absent, record |-> NoneMap]

InitStore ==
    /\ agents = [i \in Instances |-> NoAgent]
    /\ active_agents = 0
    /\ disk = Absent
    /\ response = [type |-> "none"]
    /\ autoRag = 0
    /\ threads = NoSave

\* save(): open(filepath, 'w') creates or truncates the file, or raises
save_open ==
    /\ threads.pc = "idle"
    /\ \E record \in StoreRecords, outcome \in {"ok", "open_failed"} :
          IF outcome = "ok"
          THEN /\ disk' = Corrupt
               /\ threads' = [pc |-> "writing", prior |-> disk, record |-> record]
               /\ UNCHANGED response
          ELSE /\ disk' = save(disk, record, outcome).file
               /\ threads' = [pc |-> "idle", prior |-> disk, record |-> record]
               /\ response' = [type |-> "save", result |-> save(disk, record, outcome).result]
    /\ UNCHANGED <<agents, active_agents, autoRag>>

\* save(): json.dump and the close of the file ran to the end
save_write ==
    /\ threads.pc = "writing"
    /\ disk' = save(disk, threads.record, "ok").file
    /\ response' = [type |-> "save", result |-> save(disk, threads.record, "ok").result]
    /\ threads' = [threads EXCEPT !.pc = "idle"]
    /\ UNCHANGED <<agents, active_agents, autoRag>>

\* save(): json.dump raised part-way, the except branch returns False
save_fail ==
    /\ threads.pc = "writing"
    /\ disk' = save(disk, threads.record, "write_failed").file
    /\ response' = [type |-> "save",
                    result |-> save(disk, threads.record, "write_failed").result]
    /\ threads' = [threads EXCEPT !.pc = "idle"]
    /\ UNCHANGED <<agents, active_agents, autoRag>>

\* the process stops while the file is being written
save_interrupted ==
    /\ threads.pc = "writing"
    /\ response' = [type |-> "none"]
    /\ threads' = [threads EXCEPT !.pc = "idle"]
    /\ UNCHANGED <<agents, active_agents, disk, autoRag>>

\* load(), from any thread or a later process, at any time
load_file ==
    /\ response' = [type |-> "load", result |-> load(disk)]
    /\ UNCHANGED <<agents, active_agents, disk, autoRag, threads>>

exists_file ==
    /\ response' = [type |-> "exists", result |-> exists(disk)]
    /\ UNCHANGED <<agents, active_agents, disk, autoRag, threads>>

delete_file ==
    /\ threads.pc = "idle"
    /\ \E outcome \in DeleteOutcomes :
          /\ disk' = delete(disk, outcome).file
          /\ response' = [type |-> "delete", result |-> delete(disk, outcome).result]
          /\ threads' = IF delete(disk, outcome).file = Absent THEN NoSave ELSE threads
    /\ UNCHANGED <<agents, active_agents, autoRag>>

NextStore ==
    \/ save_open
    \/ save_write
    \/ save_fail
    \/ save_interrupted
    \/ load_file
    \/ exists_file
    \/ delete_file

SpecStore == InitStore /\ [][NextStore]_vars

---------------------------------------------------------------------------
(* A FieldManager on its own: threads holds its fields dictionary, response *)
(* the last call made on it. calculate_progress is also taken at every      *)
(* count of filled fields of the twelve-field schema.                       *)

InitFields ==
    /\ agents = [i \in Instances |-> NoAgent]
    /\ active_agents = 0
    /\ disk = Absent
    /\ response = [type |-> "none"]
    /\ autoRag = 0
    /\ threads = NewFields

fields_update ==
    /\ \E updates \in Mappings :
          /\ threads' = update_fields(threads, updates)
          /\ response' = [type |-> "update_fields", before |-> threads,
                          updates |-> updates, returned |-> updated_subset(updates)]
    /\ UNCHANGED <<agents, active_agents, disk, autoRag>>

fields_progress ==
    /\ \E total \in 1..SchemaSize :
       \E filled \in 0..total :
          response' = [type |-> "calculate_progress", filled |-> filled,
                       total |-> total, pct |-> round_pct(filled, total)]
    /\ UNCHANGED <<agents, active_agents, disk, autoRag, threads>>

fields_reset ==
    /\ threads' = NewFields
    /\ response' = [type |-> "reset"]
    /\ UNCHANGED <<agents, active_agents, disk, autoRag>>

NextFields ==
    \/ fields_update
    \/ fields_progress
    \/ fields_reset

SpecFields == InitFields /\ [][NextFields]_vars

---------------------------------------------------------------------------
(* A ConversationManager on its own, built with any max_history from 0 to   *)
(* MaxCap: threads holds max_history, the log, and as history the entries   *)
(* handed to it in order (since the last from_dict, the imported list).     *)

LogContents == {"x", "y", "z"}

LogEntry(content) == [role |-> "user", content |-> content, action |-> None]

LogSnapshots ==
    UNION {[1..n -> {LogEntry(c) : c \in LogContents}] : n \in 0..MaxLog}

InitLog ==
    /\ agents = [i \in Instances |-> NoAgent]
    /\ active_agents = 0
    /\ disk = Absent
    /\ response = [type |-> "none"]
    /\ autoRag = 0
    /\ threads \in {[max_history |-> cap, history |-> <<>>, given |-> <<>>] :
                      cap \in 0..MaxCap}

log_add_message ==
    /\ Len(threads.given) < MaxLog
    /\ \E content \in LogContents :
          threads' = [threads EXCEPT
                        !.history = add_message_max(@, "user", content, None,
                                                    threads.max_history),
                        !.given = Append(@, LogEntry(content))]
    /\ UNCHANGED <<agents, active_agents, disk, response, autoRag>>

log_from_dict ==
    /\ \E history \in LogSnapshots :
          threads' = [threads EXCEPT
                        !.history = from_dict_max(history, threads.max_history),
                        !.given = history]
    /\ UNCHANGED <<agents, active_agents, disk, response, autoRag>>

NextLog ==
    \/ log_add_message
    \/ log_from_dict

SpecLog == InitLog /\ [][NextLog]_vars

---------------------------------------------------------------------------
(* The decision policy DecisionMaker hands to the model collaborator. The   *)
(* action is chosen by the collaborator from two instructions: the          *)
(* DECISION PRIORITY list of SYSTEM_PROMPT and the DECISION LOGIC steps of  *)
(* _build_decision_prompt. A message is shown by the criteria it meets.     *)
(* Where the two instructions name different actions, either may come back. *)

Criteria == {"generic", "explicit_fields", "problem", "single_update", "submit"}

\* SYSTEM_PROMPT, DECISION PRIORITY 1 to 6
system_prompt_priority(criteria, complete) ==
    IF "explicit_fields" \in criteria THEN "suggest_fields"
    ELSE IF "single_update" \in criteria THEN "update_field"
    ELSE IF "problem" \in criteria THEN "search_rag"
    ELSE IF "submit" \in criteria /\ complete THEN "submit_form"
    ELSE IF "generic" \in criteria THEN "generic_response"
    ELSE "clarify"

\* _build_decision_prompt, DECISION LOGIC STEP 1 to STEP 5 and OTHERWISE
decision_logic(criteria, complete) ==
    IF "generic" \in criteria THEN "generic_response"
    ELSE IF "explicit_fields" \in criteria THEN "suggest_fields"
    ELSE IF "problem" \in criteria THEN "search_rag"
    ELSE IF "single_update" \in criteria THEN "update_field"
    ELSE IF "submit" \in criteria /\ complete THEN "submit_form"
    ELSE "clarify"

InitPolicy ==
    /\ agents = [i \in Instances |-> NoAgent]
    /\ active_agents = 0
    /\ disk = Absent
    /\ response = [type |-> "none"]
    /\ autoRag = 0
    /\ threads = <<>>

\* decide_action for a message meeting criteria, with the form complete or
\* not: the collaborator's answer, or the fallback decision when the call or
\* the parsing of its answer raises
decide ==
    /\ \E criteria \in SUBSET Criteria, complete \in BOOLEAN :
       \/ \E action \in {system_prompt_priority(criteria, complete),
                         decision_logic(criteria, complete)} :
             response' = [type |-> "decision", criteria |-> criteria,
                          complete |-> complete, failed |-> FALSE, action |-> action]
       \/ response' = [type |-> "decision", criteria |-> criteria,
                       complete |-> complete, failed |-> TRUE,
                       action |-> _fallback_decision.action]
    /\ UNCHANGED <<agents, active_agents, disk, autoRag, threads>>

NextPolicy == decide

SpecPolicy == InitPolicy /\ [][NextPolicy]_vars

---------------------------------------------------------------------------
(* The LLMServiceSession shared by DecisionMaker and ConfirmationHandler    *)
(* (llm_service_session.py). threads holds its metadata dictionary, the     *)
(* context the most recent call carried, the bean attached for that call,   *)
(* how the call ended, and the llm_state of the last checkpoint.            *)

NewMetadata == "created_at" :> 0

AgentStates == {[progress_pct |-> p] : p \in {0, 500}}

ConfirmationContexts == {[pending_suggestions |-> m] : m \in {"Problem" :> "a", "Discipline" :> "a"}}

\* how a caller's try block ends: the answer validates; call_llm raises;
\* _extract_json raises; the model constructor raises on the parsed answer
CallOutcomes == {"ok", "call_raised", "no_json", "invalid"}

NoContext == [context |-> "none"]

\* self.metadata.setdefault("beans", {})[name] = data
attach_bean(metadata, name, data) ==
    LET beans == IF "beans" \in DOMAIN metadata THEN metadata["beans"] ELSE EmptyMap
    IN ("beans" :> ((name :> data) @@ beans)) @@ metadata

clear_beans(metadata) ==
    [k \in DOMAIN metadata \ {"beans"} |-> metadata[k]]

\* the "Current Context" call_llm appends to the last message it sends
call_llm(metadata) ==
    IF "beans" \in DOMAIN metadata THEN metadata["beans"] ELSE NoContext

to_checkpoint_dict(metadata) ==
    [metadata |-> [k \in DOMAIN metadata \ {"beans"} |-> metadata[k]]]

from_checkpoint_dict(checkpoint) == checkpoint.metadata

\* attach, call, and the clear_beans() that stands inside the try block
\* after _extract_json: it is reached unless call_llm or _extract_json raised
CallWithBean(session, name, data, caller, outcome) ==
    LET attached == attach_bean(session.metadata, name, data)
        after == IF outcome \in {"call_raised", "no_json"} THEN attached
                 ELSE clear_beans(attached)
    IN [session EXCEPT !.metadata = after,
                       !.sent = call_llm(attached),
                       !.attached = name :> data,
                       !.caller = caller,
                       !.outcome = outcome]

InitBeans ==
    /\ agents = [i \in Instances |-> NoAgent]
    /\ active_agents = 0
    /\ disk = Absent
    /\ response = [type |-> "none"]
    /\ autoRag = 0
    /\ threads = [metadata |-> NewMetadata, sent |-> NoContext, attached |-> EmptyMap,
                  caller |-> "none", outcome |-> "none", llm_state |-> NoContext]

decide_action_call ==
    /\ \E agent_state \in AgentStates, outcome \in CallOutcomes :
          threads' = CallWithBean(threads, "agent_state", agent_state,
                                  "decision_maker", outcome)
    /\ UNCHANGED <<agents, active_agents, disk, response, autoRag>>

detect_confirmation_call ==
    /\ \E context \in ConfirmationContexts, outcome \in CallOutcomes :
          threads' = CallWithBean(threads, "confirmation_context", context,
                                  "confirmation_detector", outcome)
    /\ UNCHANGED <<agents, active_agents, disk, response, autoRag>>

\* _save_checkpoint: "llm_state": self.llm_session.to_checkpoint_dict()
save_llm_state ==
    /\ threads' = [threads EXCEPT !.llm_state = to_checkpoint_dict(threads.metadata)]
    /\ UNCHANGED <<agents, active_agents, disk, response, autoRag>>

\* _restore_from_checkpoint: LLMServiceSession.from_checkpoint_dict(llm_state)
restore_llm_state ==
    /\ threads.llm_state # NoContext
    /\ threads' = [threads EXCEPT !.metadata = from_checkpoint_dict(threads.llm_state)]
    /\ UNCHANGED <<agents, active_agents, disk, response, autoRag>>

NextBeans ==
    \/ decide_action_call
    \/ detect_confirmation_call
    \/ save_llm_state
    \/ restore_llm_state

SpecBeans == InitBeans /\ [][NextBeans]_vars

---------------------------------------------------------------------------
(* reset_conversation beside the background tasks of send_message, for one  *)
(* id whose session was created by a join: two send_message events and one  *)
(* reset event, each handler a thread; then the process is started again    *)
(* and the id joined anew.                                                  *)

ResetThreads == {"r1"}

AllDone == \A t \in TurnThreads \cup ResetThreads : threads[t].pc = "done"

InitReset ==
    /\ agents = [i \in Instances |-> IF i = 1 THEN _initialize_new_session ELSE NoAgent]
    /\ active_agents = 1
    /\ disk = Absent
    /\ response = [type |-> "joined", is_new_session |-> TRUE, conversation_history |-> <<>>]
    /\ autoRag = 0
    /\ threads = [t \in TurnThreads \cup ResetThreads |-> [pc |-> "start"]]

\* handle_reset up to agent.checkpoint_mgr.delete(conversation_id)
reset_delete ==
    \E t \in ResetThreads, outcome \in DeleteOutcomes :
       /\ threads[t].pc = "start"
       /\ LET deleted == delete(disk, outcome) IN
          /\ disk' = deleted.file
          /\ threads' = [threads EXCEPT ![t] = [pc |-> "construct", deleted |-> deleted.result]]
       /\ UNCHANGED <<agents, active_agents, response, autoRag>>

\* the new StudyBotAgent, which loads whatever checkpoint the id has by now,
\* is put in the table in place of the old one
reset_construct ==
    \E t \in ResetThreads :
       /\ threads[t].pc = "construct"
       /\ LET agent == StudyBotAgent(disk) IN
          IF agent = ConstructorRaised
          THEN /\ response' = [type |-> "reset_failed"]
               /\ UNCHANGED <<agents, active_agents>>
          ELSE /\ \E i \in Instances :
                     /\ agents[i] = NoAgent
                     /\ \A j \in Instances : j < i => agents[j] # NoAgent
                     /\ agents' = [agents EXCEPT ![i] = agent]
                     /\ active_agents' = i
               /\ response' = [type |-> "conversation_reset"]
       /\ threads' = [threads EXCEPT ![t] = [@ EXCEPT !.pc = "done"]]
       /\ UNCHANGED <<disk, autoRag>>

\* every handler has ended; the process starts again and the id is joined:
\* the agent is constructed from the checkpoint the directory holds
restart_join ==
    /\ AllDone
    /\ response.type # "joined"
    /\ LET agent == StudyBotAgent(disk) IN
       /\ agent # ConstructorRaised
       /\ agents' = [i \in Instances |-> IF i = 1 THEN agent ELSE NoAgent]
       /\ active_agents' = 1
       /\ response' = [type |-> "joined", is_new_session |-> TRUE,
                       conversation_history |->
                           IF agent.session.conversation_history = NoneMap
                           THEN <<>> ELSE agent.session.conversation_history]
    /\ UNCHANGED <<disk, autoRag, threads>>

NextReset ==
    \/ turn_begin
    \/ turn_finish
    \/ reset_delete
    \/ reset_construct
    \/ restart_join

SpecReset == InitReset /\ [][NextReset]_vars

---------------------------------------------------------------------------
(* Properties *)

\* the response types of a turn that ran to its end
CompletedTurnTypes ==
    {"suggestion_pending", "field_updated", "no_results", "submitted", "incomplete",
     "clarify", "generic_response", "error", "apply_suggestions", "modification",
     "rejection", "unclear_confirmation"}

\* the response types of the turns that may write the Field Tracker
WritingTurnTypes == {"apply_suggestions", "modification", "field_updated"}

\* C1: a step changes a field value only when it is a confirmation turn that
\* applies the pending suggestions, a modification turn or an UPDATE_FIELD
\* dispatch; every other turn (one that creates a suggestion set, SUBMIT_FORM,
\* CLARIFY, GENERIC_RESPONSE, rejection, ambiguous) leaves all values as they were
C1_FieldsChangeOnlyWhenApplied ==
    [][(response'.type \in (CompletedTurnTypes \cup {"exception"}) \ WritingTurnTypes)
          => (agents'[active_agents'].fields = Resident.fields)]_vars

\* C1 witness: a suggestion set was created and none of its values is stored
C1_Witness ==
    /\ active_agents # 0
    /\ response.type = "suggestion_pending"
    /\ Resident.session.awaiting_confirmation
    /\ \E k \in DOMAIN Resident.session.pending_suggestions \cap FieldNames :
          /\ Truthy(Resident.session.pending_suggestions[k])
          /\ Resident.fields[k] = None

\* every schema key of the suggestion set p holds p's value in fields
Holds(fields, p) == \A k \in DOMAIN p \cap FieldNames : fields[k] = p[k]

\* C2 as stated: a confirmation turn (confidence above 0.6) on pending
\* suggestions P ends with every schema key of P holding P's value,
\* awaiting_confirmation false and pending_suggestions absent
C2_ConfirmationClearsFlags ==
    [][(response'.type = "apply_suggestions")
          => /\ Holds(agents'[active_agents'].fields, Resident.session.pending_suggestions)
             /\ ~agents'[active_agents'].session.awaiting_confirmation
             /\ agents'[active_agents'].session.pending_suggestions = NoneMap]_vars

\* C2 amended: a confirmation turn on pending suggestions P ends with every
\* schema key of P holding P's value; awaiting_confirmation is false and
\* pending_suggestions absent unless the turn auto-triggered a retrieval search
\* (rag_search_performed was false and the form is still incomplete) that found
\* values for fields not yet filled: then pending_suggestions is that non-empty
\* set of unfilled found fields, awaiting_confirmation and rag_search_performed
\* are true
C2_ConfirmationAppliesPending ==
    [][(response'.type = "apply_suggestions")
          => LET after == agents'[active_agents'] IN
             /\ Holds(after.fields, Resident.session.pending_suggestions)
             /\ \/ /\ ~after.session.awaiting_confirmation
                   /\ after.session.pending_suggestions = NoneMap
                \/ /\ ~Resident.session.rag_search_performed
                   /\ \E f \in FieldNames : ~Truthy(after.fields[f])
                   /\ after.session.awaiting_confirmation
                   /\ after.session.rag_search_performed
                   /\ TruthyMap(after.session.pending_suggestions)
                   /\ \A k \in DOMAIN after.session.pending_suggestions \cap FieldNames :
                         ~Truthy(after.fields[k])]_vars

\* C2 witness: a confirmation turn applied a value and its auto-triggered
\* search left a new suggestion set pending
C2_Witness ==
    /\ active_agents # 0
    /\ response.type = "apply_suggestions"
    /\ \E f \in FieldNames : Truthy(Resident.fields[f])
    /\ Resident.session.awaiting_confirmation
    /\ Resident.session.rag_search_performed
    /\ TruthyMap(Resident.session.pending_suggestions)

\* C3: with suggestions pending, a message classified as a rejection and not
\* as a modification ends the turn with awaiting_confirmation false,
\* pending_suggestions absent and every field value as before the turn
C3_RejectionLeavesFields ==
    (active_agents # 0 /\ Resident.session.awaiting_confirmation
        /\ Resident.session.pending_suggestions # NoneMap)
    => \A message \in Messages, llm \in ConfirmationOutputs, rag \in RagOutputs :
          LET c == detect_confirmation(message, llm)
              turn == handle_message(Resident, message, llm, rag, "ok", disk)
          IN (c.is_rejection /\ ~c.is_modification_request)
             => /\ ~turn.agent.session.awaiting_confirmation
                /\ turn.agent.session.pending_suggestions = NoneMap
                /\ turn.agent.fields = Resident.fields

\* C4: a SEARCH_RETRIEVAL turn whose search found fields ends with
\* awaiting_confirmation true and pending_suggestions equal to the found fields
C4_SearchResultsAwaitConfirmation ==
    (active_agents # 0 /\ response.type = "suggestion_pending"
        /\ Resident.session.last_action = "search_rag")
    => /\ Resident.session.awaiting_confirmation
       /\ Resident.session.pending_suggestions = response.payload

\* C5: the auto-triggered retrieval search is issued at most once in the
\* lifetime of a session, restores included, whatever the search returns
C5_AutoSearchAtMostOnce == autoRag <= 1

\* C6: a SUBMIT_FORM dispatch answers "submitted" exactly when every schema
\* field has a value, with all the field values as the ticket payload, and
\* "incomplete" otherwise; the Field Tracker and the session flags are the same
\* before and after it, and the session accepts the next message
C6_SubmitReadsOnly ==
    /\ (active_agents # 0 /\ ~Resident.session.awaiting_confirmation)
       => \A message \in Messages :
             LET decision == AgentDecision("submit_form", None, None, None, NoneMap)
                 turn == handle_message(Resident, message, decision, NoRag, "ok", disk)
                 complete == \A f \in FieldNames : Truthy(Resident.fields[f])
             IN /\ turn.response.type = IF complete THEN "submitted" ELSE "incomplete"
                /\ complete => /\ DOMAIN turn.response.payload = FieldNames
                               /\ \A f \in FieldNames :
                                     turn.response.payload[f] = Resident.fields[f]
                /\ _execute_submit_form(Resident.fields, decision).fields = Resident.fields
                /\ turn.agent.fields = Resident.fields
                /\ turn.agent.session.pending_suggestions
                      = Resident.session.pending_suggestions
                /\ turn.agent.session.awaiting_confirmation
                      = Resident.session.awaiting_confirmation
                /\ turn.agent.session.rag_search_performed
                      = Resident.session.rag_search_performed
                /\ turn.agent.session.initial_extraction_done
                      = Resident.session.initial_extraction_done
                /\ turn.completed
    /\ (active_agents # 0 /\ response.type \in {"submitted", "incomplete"})
       => ENABLED send_message

\* C6 witness: a ticket was submitted with every field value in its payload
C6_Witness ==
    /\ active_agents # 0
    /\ response.type = "submitted"
    /\ response.payload = Resident.fields
    /\ Resident.session.last_action = "submit_form"

\* C9: at the end of a completed turn whose save succeeded, constructing an
\* agent from the stored checkpoint gives the same field values, the same
\* ordered log entries and the same pending_suggestions, awaiting_confirmation,
\* rag_search_performed, initial_extraction_done and last_action
C9_CheckpointRoundTrip ==
    (active_agents # 0 /\ response.type \in CompletedTurnTypes)
    => LET restored == StudyBotAgent(disk) IN
       /\ disk.file = "complete"
       /\ restored.fields = Resident.fields
       /\ restored.conversation = Resident.conversation
       /\ restored.session.pending_suggestions = Resident.session.pending_suggestions
       /\ restored.session.awaiting_confirmation = Resident.session.awaiting_confirmation
       /\ restored.session.rag_search_performed = Resident.session.rag_search_performed
       /\ restored.session.initial_extraction_done
             = Resident.session.initial_extraction_done
       /\ restored.session.last_action = Resident.session.last_action

\* C9 witness: a saved turn end with a filled field, a full log, suggestions
\* pending and both one-time flags set
C9_Witness ==
    /\ active_agents # 0
    /\ response.type \in CompletedTurnTypes
    /\ disk.file = "complete"
    /\ \E f \in FieldNames : Truthy(Resident.fields[f])
    /\ Len(Resident.conversation) = MaxHistory
    /\ TruthyMap(Resident.session.pending_suggestions)
    /\ Resident.session.awaiting_confirmation
    /\ Resident.session.rag_search_performed
    /\ Resident.session.initial_extraction_done

\* C7: the turns of one session run one after the other: no two of them are
\* in flight at once, so a turn never reads or writes the Field Tracker, the
\* Conversation Log or the session flags while another has yet to finish
C7_TurnsAreSequential ==
    Cardinality({t \in TurnThreads : threads[t].pc = "llm"}) <= 1

\* C8: whatever the interleaving of concurrent joins for one id, exactly one
\* agent is constructed for it and every join observes that instance
C8_OneAgentPerId ==
    /\ Cardinality({i \in Instances : agents[i] # NoAgent}) <= 1
    /\ \A t, u \in JoinThreads :
          (threads[t].pc = "done" /\ threads[u].pc = "done")
             => threads[t].agent = threads[u].agent

\* C10: once a record was stored, load() returns at every moment that record
\* or the one the latest save() was given, never nothing, also while that
\* save is writing, after it failed and after it was interrupted
C10_SaveReplacesAtomically ==
    threads.prior.file = "complete"
       => load(disk) \in {threads.prior.data, threads.record}

\* the file holds something that is not a well-formed checkpoint record
Malformed(file) ==
    \/ file = Corrupt
    \/ /\ file.file = "complete"
       /\ "agent_state" \notin DOMAIN file.data

\* C11: when the stored content for the id is not a well-formed record, a
\* join that constructs the session yields a fresh one (all fields unset,
\* flags false) and not an error, and a message can then be handled
C11_MalformedStartsFresh ==
    (Malformed(disk)
        /\ (response.type = "create_failed"
              \/ (response.type = "joined" /\ response.is_new_session)))
    => /\ active_agents # 0
       /\ Resident.fields = NewFields
       /\ ~Resident.session.awaiting_confirmation
       /\ ~Resident.session.rag_search_performed
       /\ ~Resident.session.initial_extraction_done
       /\ Resident.session.pending_suggestions = NoneMap
       /\ ENABLED send_message

\* C12: once a reset of a known session has answered, whatever the checkpoint
\* delete did, no checkpoint exists for the id and the registered session is
\* fresh: fields unset, flags false, no pending suggestions, only the greeting
\* in the log
C12_ResetLeavesFreshSession ==
    (active_agents # 0 /\ response.type \in {"conversation_reset", "reset_failed"})
    => /\ response.type = "conversation_reset"
       /\ ~exists(disk)
       /\ Resident.fields = NewFields
       /\ ~Resident.session.awaiting_confirmation
       /\ Resident.session.pending_suggestions = NoneMap
       /\ ~Resident.session.rag_search_performed
       /\ ~Resident.session.initial_extraction_done
       /\ Resident.conversation = _initialize_new_session.conversation

\* C13: whatever the collaborators return or raise, a turn ends with a
\* response returned, an assistant entry appended to the log and the
\* checkpoint saved; no exception leaves the turn
C13_TurnAlwaysCompletes ==
    (active_agents # 0 /\ response.type \in CompletedTurnTypes \cup {"exception"})
    => /\ response.type # "exception"
       /\ Resident.conversation[Len(Resident.conversation)].role = "assistant"
       /\ disk.file = "complete"
       /\ disk.data.agent_state.conversation_history = Resident.conversation

\* C14: in a completed turn the user entry is appended, then the message is
\* classified and acted on, then the assistant entry is appended, then the
\* checkpoint save is attempted, exactly once, and only then is the result
\* returned
C14_TurnOrder ==
    /\ [](  (active_agents # 0 /\ threads.pc = "idle"
               /\ Len(threads.trace) > 0
               /\ threads.trace[Len(threads.trace)] = "return")
            => LET log == Resident.conversation
                   n == Len(log)
               IN /\ threads.trace
                       = <<"user_entry", "flow", "assistant_entry", "save", "return">>
                  /\ n >= 2
                  /\ log[n].role = "assistant"
                  /\ log[n - 1].role = "user"
                  /\ log[n - 1].content = threads.message
                  /\ threads.saved
                       => /\ disk.file = "complete"
                          /\ disk.data.agent_state.conversation_history = log
                          /\ disk.data.agent_state.fields = Resident.fields )
    /\ [][ (response' # response /\ response'.type \in CompletedTurnTypes)
             => /\ threads.pc = "return"
                /\ Cardinality({i \in 1..Len(threads.trace) : threads.trace[i] = "save"}) = 1
         ]_vars

\* C14 witness: a turn has returned its result after a saved checkpoint
C14_Witness ==
    /\ active_agents # 0
    /\ threads.pc = "idle"
    /\ threads.trace = <<"user_entry", "flow", "assistant_entry", "save", "return">>
    /\ threads.saved
    /\ response.type = "apply_suggestions"

\* C15: when the save of a turn fails, save() reports false and nothing is
\* raised, the turn returns the response it returns when the save succeeds,
\* fields, log and session are the same as after a successful save, and the
\* next turn can start from them
C15_SaveFailureNotFatal ==
    /\ (active_agents # 0 /\ threads.pc = "idle")
       => \A message \in Messages, save_outcome \in SaveOutcomes \ {"ok"} :
          \A llm \in IF Resident.session.awaiting_confirmation
                     THEN ConfirmationOutputs ELSE DecisionOutputs :
          \A rag \in IF (Resident.session.awaiting_confirmation
                           /\ ConfirmationSearches(Resident, message, llm))
                        \/ (~Resident.session.awaiting_confirmation /\ RegularSearches(llm))
                     THEN RagOutputs ELSE {NoRag} :
             LET failed == handle_message(Resident, message, llm, rag, save_outcome, disk)
                 stored == handle_message(Resident, message, llm, rag, "ok", disk)
             IN /\ failed.completed = stored.completed
                /\ failed.response = stored.response
                /\ failed.agent = stored.agent
                /\ ~failed.saved
                /\ stored.completed => stored.saved
    /\ (active_agents # 0 /\ threads.pc = "return" /\ ~threads.saved)
       => /\ Resident = _save_checkpoint(Resident).agent
          /\ ENABLED step_return
    /\ (active_agents # 0 /\ threads.pc = "idle" /\ ~threads.saved)
       => ENABLED step_user_entry

\* C15 witness: a turn wrote a field, its save failed, and the result was
\* returned with the file holding no record of it
C15_Witness ==
    /\ active_agents # 0
    /\ threads.pc = "idle"
    /\ Len(threads.trace) = 5
    /\ ~threads.saved
    /\ response.type = "field_updated"
    /\ Truthy(Resident.fields["Discipline"])
    /\ load(disk) = NoneMap

\* C16: update(U) stores U[k] for exactly the schema keys k of U, returns
\* exactly that subset, leaves every other field as it was, ignores keys
\* outside the schema, get(k) then gives U[k], and progress() is
\* 100 * filled / N rounded to one decimal (here in tenths of a percent:
\* within half a tenth of 1000 * filled / N)
C16_UpdateAppliesSchemaKeys ==
    /\ response.type = "update_fields"
       => LET U == response.updates
              N == Cardinality(FieldNames)
              filled == Cardinality({f \in FieldNames : threads[f] # None /\ threads[f] # ""})
              p == calculate_progress(threads)
          IN /\ DOMAIN threads = FieldNames
             /\ \A k \in FieldNames :
                   IF k \in DOMAIN U
                   THEN threads[k] = U[k] /\ get_field(threads, k) = U[k]
                   ELSE threads[k] = response.before[k]
             /\ DOMAIN response.returned = DOMAIN U \cap FieldNames
             /\ \A k \in DOMAIN response.returned : response.returned[k] = U[k]
             /\ 2 * (p * N - 1000 * filled) <= N
             /\ 2 * (1000 * filled - p * N) <= N
    /\ response.type = "calculate_progress"
       => /\ 2 * (response.pct * response.total - 1000 * response.filled) <= response.total
          /\ 2 * (1000 * response.filled - response.pct * response.total) <= response.total

\* C16 witness: an update with a schema key and a key outside the schema was
\* applied to a tracker that already held another field
C16_Witness ==
    /\ response.type = "update_fields"
    /\ response.updates = Mixed
    /\ response.before["Problem"] = "a"
    /\ response.before["Discipline"] = None
    /\ threads["Discipline"] = "a"

\* C17: in every reachable state of a session (after turns, restores from
\* any stored snapshot, one with a key outside the schema included, and
\* resets) the keys of the field tracker are exactly the schema's field
\* names, progress lies in [0,100], and is_complete holds exactly when
\* progress is 100; with the twelve-field schema too, the rounded
\* percentage is 100 only when every field is filled
C17_TrackerKeysAreSchema ==
    /\ \A i \in Instances :
          agents[i] # NoAgent
          => /\ DOMAIN agents[i].fields = FieldNames
             /\ calculate_progress(agents[i].fields) \in 0..1000
             /\ is_complete(agents[i].fields)
                  <=> calculate_progress(agents[i].fields) = 1000
    /\ \A filled \in 0..SchemaSize :
          /\ round_pct(filled, SchemaSize) \in 0..1000
          /\ round_pct(filled, SchemaSize) = 1000 <=> filled = SchemaSize

\* C17 witness: a session was restored from the stored snapshot that holds
\* a key outside the schema, and took over its one schema field
C17_Witness ==
    /\ active_agents # 0
    /\ response.type = "joined"
    /\ ~response.is_new_session
    /\ disk = Complete(StoredSnapshot)
    /\ "Budget" \in DOMAIN disk.data.agent_state.fields
    /\ Resident.fields = [NewFields EXCEPT !["Problem"] = "a"]

\* C18: for every max_history the log is built with and every sequence of
\* appends and imports, the log is never longer than max_history and holds
\* the most recent entries handed to it, in their order
C18_LogWithinCap ==
    LET n == IF Len(threads.given) < threads.max_history
             THEN Len(threads.given) ELSE threads.max_history
    IN /\ Len(threads.history) <= threads.max_history
       /\ threads.history
            = [i \in 1..n |-> threads.given[Len(threads.given) - n + i]]

\* C19: a join without an id, a message without an id or with an empty
\* text, and a message, status request or reset for an id that is not in
\* the table are each answered with an error, and the table, every agent's
\* fields, session and log, and the checkpoint file are as before; for an
\* id not in the table no turn and no reset is carried out
C19_ErrorsChangeNothing ==
    /\ [][ response'.type \in {"invalid_request", "not_found"}
             => UNCHANGED <<agents, active_agents, disk>> ]_vars
    /\ [](ENABLED join_invalid /\ ENABLED send_message_invalid)
    /\ [](active_agents = 0
            => /\ ENABLED send_message_unknown
               /\ ENABLED get_status_unknown
               /\ ENABLED reset_unknown
               /\ ~ENABLED send_message
               /\ ~ENABLED handle_reset)

\* C19 witness: a request for an id not in the table was answered with an
\* error while the checkpoint of an earlier session with a filled field is
\* still stored
C19_Witness ==
    /\ active_agents = 0
    /\ response.type = "not_found"
    /\ disk.file = "complete"
    /\ "agent_state" \in DOMAIN disk.data
    /\ disk.data.agent_state.fields # NoneMap
    /\ disk.data.agent_state.fields["Problem"] = "a"
    /\ Len(disk.data.agent_state.conversation_history) = MaxHistory

\* C20: every UI event of a turn carries the tracker's state at emission:
\* its progress_pct is calculate_progress() and its filled_fields and
\* empty_fields are the tracker's views, for every event type
C20_EventsCarryTrackerState ==
    (active_agents # 0 /\ response.type \in CompletedTurnTypes)
    => \A event \in ui_events(Resident, response) :
          /\ event.progress_pct = calculate_progress(Resident.fields)
          /\ event.filled_fields = get_filled_fields(Resident.fields)
          /\ event.empty_fields = get_empty_fields(Resident.fields)

\* an event that carries a non-empty conversation history
CarriesHistory(event) ==
    "conversation_history" \in DOMAIN event /\ event.conversation_history # <<>>

\* C21: no UI event emitted while a message is handled, while a session is
\* restored, or after a reset carries a non-empty conversation history; only
\* the answer to a join does
C21_HistoryOnlyOnJoin ==
    /\ (active_agents # 0 /\ response.type \in CompletedTurnTypes)
       => \A event \in ui_events(Resident, response) : ~CarriesHistory(event)
    /\ (response.type = "joined" /\ response.is_new_session)
       => \A event \in constructor_events(disk) :
             ~CarriesHistory(join_websocket_callback(event))
    /\ response.type = "conversation_reset"
       => \A event \in constructor_events(disk) :
             ~CarriesHistory(reset_websocket_callback(event))

\* C22: whenever a message meets several criteria the action is the first
\* that applies in the order SUGGEST_FIELDS > UPDATE_FIELD > SEARCH_RAG >
\* SUBMIT_FORM > GENERIC_RESPONSE > CLARIFY; so a message with an explicit
\* field value and a submission request, the form incomplete, gives
\* SUGGEST_FIELDS
C22_DecisionPriority ==
    (response.type = "decision" /\ ~response.failed)
    => LET c == response.criteria IN
       /\ ({"explicit_fields", "submit"} \subseteq c /\ ~response.complete)
             => response.action = "suggest_fields"
       /\ response.action =
             CASE "explicit_fields" \in c -> "suggest_fields"
               [] "explicit_fields" \notin c /\ "single_update" \in c -> "update_field"
               [] {"explicit_fields", "single_update"} \cap c = {} /\ "problem" \in c
                    -> "search_rag"
               [] {"explicit_fields", "single_update", "problem"} \cap c = {}
                    /\ "submit" \in c /\ response.complete -> "submit_form"
               [] {"explicit_fields", "single_update", "problem"} \cap c = {}
                    /\ ~("submit" \in c /\ response.complete) /\ "generic" \in c
                    -> "generic_response"
               [] OTHER -> "clarify"

\* C23: delete is idempotent: with no stored record it reports success and
\* changes nothing; after any delete that reports success exists is false,
\* load returns absent, and any further delete again reports success and
\* leaves the file absent
C23_DeleteIdempotent ==
    /\ [][ delete_file
             => /\ response'.type = "delete"
                /\ disk = Absent => (response'.result /\ disk' = Absent)
                /\ response'.result => (~exists(disk') /\ load(disk') = NoneMap)
                /\ ~response'.result => disk' = disk ]_vars
    /\ [](\A outcome \in DeleteOutcomes :
            LET first == delete(disk, outcome) IN
            first.result
            => \A again \in DeleteOutcomes :
                  delete(first.file, again) = [file |-> Absent, result |-> TRUE])

\* C23 witness: a delete has reported success and no record is stored
C23_Witness ==
    /\ response = [type |-> "delete", result |-> TRUE]
    /\ disk = Absent
    /\ ~exists(disk)
    /\ threads = NoSave

\* the responses of the confirmation path, and those of the Action Dispatcher
ConfirmationPathTypes ==
    {"apply_suggestions", "modification", "rejection", "unclear_confirmation"}

DispatcherTypes ==
    {"suggestion_pending", "field_updated", "no_results", "submitted", "incomplete",
     "clarify", "generic_response", "error", "exception"}

\* C24: a message is routed by awaiting_confirmation as it stands when the
\* turn starts: when true the confirmation classifier decides the turn and
\* the Decision Engine and Action Dispatcher are not run (no decision is
\* recorded in last_action); when false the Decision Engine and Action
\* Dispatcher decide it (its action is recorded) and the classifier is not run
C24_RoutedByAwaitingFlag ==
    [][ response'.type \in CompletedTurnTypes \cup {"exception"}
          => IF Resident.session.awaiting_confirmation
             THEN /\ response'.type \in ConfirmationPathTypes
                  /\ agents'[active_agents'].session.last_action
                       = Resident.session.last_action
             ELSE /\ response'.type \in DispatcherTypes
                  /\ agents'[active_agents'].session.last_action \in ActionType ]_vars

\* C24 witness: a turn taken while awaiting confirmation ended as a
\* rejection, the last recorded decision still the one that suggested
C24_Witness ==
    /\ active_agents # 0
    /\ response.type = "rejection"
    /\ Resident.session.last_action = "suggest_fields"
    /\ ~Resident.session.awaiting_confirmation

\* C25: at the end of every turn and after every restore
\* awaiting_confirmation is true exactly when pending_suggestions is a
\* non-empty mapping; a turn that applies or discards the pending set leaves
\* none pending, except that an applying turn may put up the new set its own
\* first retrieval found (fields not yet filled); and a set comes to be
\* pending only in a turn that suggests
C25_PendingIffAwaiting ==
    /\ [](\A i \in Instances :
            agents[i] # NoAgent
            => (agents[i].session.awaiting_confirmation
                  <=> (agents[i].session.pending_suggestions # NoneMap
                         /\ DOMAIN agents[i].session.pending_suggestions # {})))
    /\ [][ response'.type \in CompletedTurnTypes
             => LET before == Resident.session
                    after == agents'[active_agents'].session
                    tracker == agents'[active_agents'].fields
                IN /\ response'.type \in {"modification", "rejection"}
                      => after.pending_suggestions = NoneMap
                   /\ response'.type = "apply_suggestions"
                      => \/ after.pending_suggestions = NoneMap
                         \/ /\ ~before.rag_search_performed
                            /\ after.rag_search_performed
                            /\ \A k \in DOMAIN after.pending_suggestions :
                                  get_field(tracker, k) = None \/ get_field(tracker, k) = ""
                   /\ (after.pending_suggestions # NoneMap
                         /\ after.pending_suggestions # before.pending_suggestions)
                      => response'.type \in {"suggestion_pending", "apply_suggestions"} ]_vars

\* C25 witness: a confirmation applied the pending set, and the retrieval it
\* triggered put up a new one
C25_Witness ==
    /\ active_agents # 0
    /\ response.type = "apply_suggestions"
    /\ Resident.session.awaiting_confirmation
    /\ Resident.session.rag_search_performed
    /\ Resident.session.pending_suggestions = ("Discipline" :> "a")
    /\ Resident.fields["Problem"] = "a"

\* a classifier answer that names a modification and carries modifications
ModificationPresent(c) ==
    c.is_modification_request
    /\ c.extracted_modifications # NoneMap /\ DOMAIN c.extracted_modifications # {}

\* C26: while awaiting confirmation, a classifier answer with
\* is_modification_request true, modifications present and is_rejection true
\* takes the modification path: the modifications, not the pending
\* suggestions, are applied to the tracker, and awaiting_confirmation and
\* pending_suggestions are cleared
C26_ModificationOverRejection ==
    (active_agents # 0 /\ Resident.session.awaiting_confirmation)
    => \A message \in Messages :
       \A llm \in {c \in ConfirmationOutputs \ {LlmFailed} :
                      ModificationPresent(c) /\ c.is_rejection} :
       \A rag \in RagOutputs :
          LET turn == handle_message(Resident, message, llm, rag, "ok", disk) IN
          /\ turn.response.type = "modification"
          /\ turn.agent.fields = update_fields(Resident.fields, llm.extracted_modifications)
          /\ ~turn.agent.session.awaiting_confirmation
          /\ turn.agent.session.pending_suggestions = NoneMap

\* C27: conflicting flags are resolved modification > rejection >
\* confirmation: an answer with a modification present is handled as a
\* modification even when is_confirmation is true, and an answer with
\* is_rejection and is_confirmation true and no modification is handled as a
\* rejection, the pending suggestions not applied
C27_FlagResolutionOrder ==
    (active_agents # 0 /\ Resident.session.awaiting_confirmation)
    => \A message \in Messages :
       \A llm \in {c \in ConfirmationOutputs \ {LlmFailed} :
                      c.is_confirmation /\ (ModificationPresent(c) \/ c.is_rejection)} :
       \A rag \in RagOutputs :
          LET turn == handle_message(Resident, message, llm, rag, "ok", disk) IN
          IF ModificationPresent(llm)
          THEN /\ turn.response.type = "modification"
               /\ turn.agent.fields
                    = update_fields(Resident.fields, llm.extracted_modifications)
          ELSE /\ turn.response.type = "rejection"
               /\ turn.agent.fields = Resident.fields
               /\ turn.agent.session.pending_suggestions = NoneMap

\* C28: while awaiting confirmation, an answer with is_confirmation true is
\* taken as a confirmation only above the threshold confidence of 0.6: at or
\* below it, with no modification and no rejection flag, the pending
\* suggestions are not applied and the session stays awaiting confirmation
C28_ConfirmationNeedsConfidence ==
    (active_agents # 0 /\ Resident.session.awaiting_confirmation)
    => \A message \in Messages :
       \A llm \in {c \in ConfirmationOutputs \ {LlmFailed} :
                      c.is_confirmation /\ ~c.is_modification_request /\ ~c.is_rejection} :
       \A rag \in RagOutputs :
          LET turn == handle_message(Resident, message, llm, rag, "ok", disk) IN
          IF llm.confidence <= 6
          THEN /\ turn.response.type = "unclear_confirmation"
               /\ turn.agent.fields = Resident.fields
               /\ turn.agent.session.awaiting_confirmation
               /\ turn.agent.session.pending_suggestions
                    = Resident.session.pending_suggestions
          ELSE turn.response.type = "apply_suggestions"

\* C28 witness: a turn taken while awaiting confirmation was not accepted as
\* a confirmation; the session still awaits, the suggested field still unset
C28_Witness ==
    /\ active_agents # 0
    /\ response.type = "unclear_confirmation"
    /\ Resident.session.awaiting_confirmation
    /\ Resident.session.pending_suggestions = ("Problem" :> "a")
    /\ Resident.fields["Problem"] = None
    /\ Len(Resident.conversation) = MaxHistory

\* C29: while awaiting confirmation, an answer that is neither an accepted
\* confirmation, nor a modification with modifications present, nor a
\* rejection leaves awaiting_confirmation true, pending_suggestions and
\* every field value as they were, and the next message goes to the
\* confirmation path again
C29_AmbiguousKeepsAwaiting ==
    (active_agents # 0 /\ Resident.session.awaiting_confirmation)
    => \A message \in Messages :
       \A llm \in {c \in ConfirmationOutputs \ {LlmFailed} :
                      /\ ~(c.is_confirmation /\ c.confidence > 6)
                      /\ ~ModificationPresent(c)
                      /\ ~c.is_rejection} :
          LET turn == handle_message(Resident, message, llm, NoRag, "ok", disk)
              again == handle_message(turn.agent, message, llm, NoRag, "ok", turn.file)
          IN /\ turn.completed
             /\ turn.agent.fields = Resident.fields
             /\ turn.agent.session.awaiting_confirmation
             /\ turn.agent.session.pending_suggestions
                  = Resident.session.pending_suggestions
             /\ again.response.type \in ConfirmationPathTypes

\* C29 witness: an ambiguous answer has left the retrieval's set pending and
\* unapplied, beside the field a confirmation filled earlier
C29_Witness ==
    /\ active_agents # 0
    /\ response.type = "unclear_confirmation"
    /\ Resident.session.awaiting_confirmation
    /\ Resident.session.rag_search_performed
    /\ Resident.session.pending_suggestions = ("Discipline" :> "a")
    /\ Resident.fields = [NewFields EXCEPT !["Problem"] = "a"]

\* C30: when the model call fails, or its output does not parse or validate
\* as a decision, decide_action returns a CLARIFY decision with the fixed
\* apology, confidence 0.3 and requires_user_input true, nothing is raised,
\* and the turn leaves the tracker, awaiting_confirmation and
\* pending_suggestions as they were
C30_DecisionFallback ==
    (active_agents # 0 /\ ~Resident.session.awaiting_confirmation)
    => \A message \in Messages, rag \in RagOutputs :
          LET decision == decide_action(LlmFailed)
              turn == handle_message(Resident, message, LlmFailed, rag, "ok", disk)
          IN /\ decision.action = "clarify"
             /\ decision.message_to_user
                  = "I'm having trouble understanding. Could you rephrase that?"
             /\ decision.confidence = 3
             /\ decision.requires_user_input
             /\ turn.completed
             /\ turn.response.type = "clarify"
             /\ turn.agent.fields = Resident.fields
             /\ turn.agent.session.awaiting_confirmation
                  = Resident.session.awaiting_confirmation
             /\ turn.agent.session.pending_suggestions
                  = Resident.session.pending_suggestions

\* C30 witness: a turn was answered with a clarification, the field filled
\* before it still in place and nothing pending
C30_Witness ==
    /\ active_agents # 0
    /\ response.type = "clarify"
    /\ Resident.session.last_action = "clarify"
    /\ Resident.fields["Problem"] = "a"
    /\ ~Resident.session.awaiting_confirmation
    /\ Resident.session.pending_suggestions = NoneMap

\* the texts the keyword fallback is tried on, and which of them hold (as
\* text, in any letter case) an entry of the affirmative list or of the
\* negative list: "incorrect" holds "correct", "looks good" holds "ok",
\* "nope" holds "no", "hm" holds neither
FallbackTexts ==
    {"Yes", "yes", "ok", "yeah", "sure", "looks good", "apply", "correct",
     "no", "nope", "wrong", "incorrect", "don't", "cancel", "hm"}

HoldsAffirmative ==
    {"Yes", "yes", "ok", "yeah", "sure", "looks good", "apply", "correct", "incorrect"}

HoldsNegative == {"no", "nope", "wrong", "incorrect", "don't", "cancel"}

\* C31: when the model call of the confirmation classifier fails, the result
\* is the keyword one: is_confirmation is true exactly for a text holding an
\* affirmative entry, is_rejection exactly for a text holding a negative
\* entry (each on its own, both may be true), is_modification_request is
\* false and the confidence is 0.7; the turn is then routed by these flags
C31_KeywordFallback ==
    (active_agents # 0 /\ Resident.session.awaiting_confirmation)
    => /\ \A text \in FallbackTexts :
             detect_confirmation(text, LlmFailed)
               = ConfirmationDetection(text \in HoldsAffirmative, text \in HoldsNegative,
                                       FALSE, 7, NoneMap)
       /\ \A message \in Messages, rag \in RagOutputs :
             LET turn == handle_message(Resident, message, LlmFailed, rag, "ok", disk) IN
             turn.completed
             => turn.response.type
                  = IF message \in HoldsAffirmative THEN "apply_suggestions"
                    ELSE IF message \in HoldsNegative THEN "rejection"
                    ELSE "unclear_confirmation"

\* C31 witness: a session is awaiting confirmation of a pending set, and a
\* failed classifier call on the text "incorrect" gives both flags, so the
\* turn applies the set
C31_Witness ==
    /\ active_agents # 0
    /\ Resident.session.awaiting_confirmation
    /\ Resident.session.pending_suggestions = ("Problem" :> "a")
    /\ detect_confirmation("incorrect", LlmFailed).is_confirmation
    /\ detect_confirmation("incorrect", LlmFailed).is_rejection
    /\ handle_message(Resident, "incorrect", LlmFailed, NoRag, "ok", disk).agent.fields["Problem"] = "a"

\* C32: context attached for one model call is seen by that call only: once
\* a call has ended, succeeded or failed, no attached context remains; a call
\* carries no context but the one attached for it; and the llm_state of a
\* checkpoint holds no attached context
C32_ContextIsPerCall ==
    /\ threads.caller # "none" => "beans" \notin DOMAIN threads.metadata
    /\ threads.caller # "none" => threads.sent = threads.attached
    /\ threads.llm_state # NoContext => "beans" \notin DOMAIN threads.llm_state.metadata

\* the decisions the dispatcher cannot carry out: an action without a
\* handler, SUGGEST_FIELDS without extracted fields, UPDATE_FIELD without a
\* field name or without a value
MalformedDecisions ==
    {AgentDecision("apply_suggestions", None, None, None, NoneMap)}
    \cup {AgentDecision("suggest_fields", None, None, None, m) : m \in {NoneMap, EmptyMap}}
    \cup {AgentDecision("update_field", n, v, None, NoneMap) :
            n \in Keys \cup {None}, v \in {None, ""}}
    \cup {AgentDecision("update_field", None, v, None, NoneMap) : v \in Values \cup {None}}

\* C33: a decision whose action has no handler, a SUGGEST_FIELDS decision
\* without fields and an UPDATE_FIELD decision lacking name or value are each
\* answered with an error response, nothing is raised, the tracker is as
\* before, awaiting_confirmation is false and no suggestions are pending
C33_MalformedDecisionIsError ==
    (active_agents # 0 /\ ~Resident.session.awaiting_confirmation)
    => \A llm \in MalformedDecisions, message \in Messages, rag \in RagOutputs :
          LET turn == handle_message(Resident, message, llm, rag, "ok", disk) IN
          /\ llm \in DecisionOutputs
          /\ turn.completed
          /\ turn.response.type = "error"
          /\ turn.agent.fields = Resident.fields
          /\ ~turn.agent.session.awaiting_confirmation
          /\ turn.agent.session.pending_suggestions = NoneMap

\* C33 witness: a turn whose decision named an action without a handler was
\* answered with an error, the field filled before it still in place
C33_Witness ==
    /\ active_agents # 0
    /\ response.type = "error"
    /\ Resident.session.last_action = "apply_suggestions"
    /\ Resident.fields["Problem"] = "a"
    /\ ~Resident.session.awaiting_confirmation
    /\ Resident.session.pending_suggestions = NoneMap

\* the actions only the dispatcher of a regular turn performs
DispatchedActions ==
    {"suggest_fields", "update_field", "search_rag", "submit_form", "clarify",
     "generic_response"}

\* C34: the assistant entry a turn appends is tagged with the action that
\* turn performed, which is also what last_action names afterwards; the entry
\* of a confirmation, modification, rejection or ambiguous turn therefore
\* does not carry the action an earlier, regular turn dispatched
C34_EntryTaggedWithTurnAction ==
    [][ response'.type \in CompletedTurnTypes
        => LET a == agents'[active_agents']
               entry == a.conversation[Len(a.conversation)]
           IN /\ entry.role = "assistant"
              /\ entry.action = a.session.last_action
              /\ response'.type \in ConfirmationPathTypes
                   => entry.action \notin DispatchedActions \cup {None} ]_vars

\* C35: when a reset is issued while a turn is still running on the old
\* session, then once all of them have ended no checkpoint with the state of
\* the session before the reset exists, and a later restart and join gives a
\* new session. Stated for the runs in which the delete succeeded and every
\* turn ran on the agent of before the reset (threads[t].agent = 1), so that
\* nothing was saved for the session created by the reset
C35_ResetDiscardsSession ==
    (/\ AllDone
     /\ threads["r1"].deleted
     /\ \A t \in TurnThreads : threads[t].agent = 1)
    => /\ disk = Absent
       /\ response.type = "joined" => Resident = _initialize_new_session

\* C36: an UPDATE_FIELD dispatch answers "field_updated" for field F and
\* value V only if the tracker then holds V for F; for a field name that is
\* not in the schema no "field_updated" answer is given
C36_FieldUpdatedIsStored ==
    [][ response'.type = "field_updated"
        => \A F \in DOMAIN response'.payload :
              /\ F \in FieldNames
              /\ agents'[active_agents'].fields[F] = response'.payload[F] ]_vars

\* C37: the set an auto-triggered retrieval puts up holds only fields that
\* were unset when it searched, so the turn confirming that set changes no
\* field that had a value; and when every found field is already filled no
\* set is put up and awaiting_confirmation stays false
C37_AutoSuggestionsOnlyUnset ==
    (active_agents # 0 /\ Resident.session.awaiting_confirmation
     /\ ~Resident.session.rag_search_performed)
    => \A llm \in ConfirmationOutputs, rag \in RagOutputs :
          LET turn == handle_message(Resident, "Yes", llm, rag, "ok", disk)
              after == turn.agent
              unset == {k \in DOMAIN rag.found_fields : ~Truthy(get_field(after.fields, k))}
              confirmed == handle_message(after, "Yes",
                               ConfirmationDetection(TRUE, FALSE, FALSE, 7, NoneMap),
                               NoRag, "ok", turn.file).agent
          IN (turn.completed /\ turn.searched)
             => /\ unset = {}
                   => /\ ~after.session.awaiting_confirmation
                      /\ after.session.pending_suggestions = NoneMap
                /\ after.session.awaiting_confirmation
                   => /\ DOMAIN after.session.pending_suggestions \subseteq unset
                      /\ \A f \in FieldNames :
                            Truthy(after.fields[f]) => confirmed.fields[f] = after.fields[f]

\* C37 witness: the set of the session's one retrieval has been confirmed
\* and applied; both fields are filled and nothing is pending
C37_Witness ==
    /\ active_agents # 0
    /\ response.type = "apply_suggestions"
    /\ Resident.session.rag_search_performed
    /\ ~Resident.session.awaiting_confirmation
    /\ Resident.session.pending_suggestions = NoneMap
    /\ Resident.fields = [f \in FieldNames |-> "a"]

\* C38: between the creation of a session and its reset no turn makes a
\* filled field unfilled: the set of filled fields and the progress never
\* decrease, whatever values the suggestions, modifications and updates carry
C38_FilledNeverDecreases ==
    [][ (active_agents # 0 /\ response'.type \in CompletedTurnTypes)
        => LET before == Resident.fields
               after == agents'[active_agents'].fields
           IN /\ \A f \in FieldNames : Truthy(before[f]) => Truthy(after[f])
              /\ calculate_progress(after) >= calculate_progress(before) ]_vars

\* C39: the history a join returns is the session's Conversation Log as it
\* stands, in order, for a session just created (the log holds the
\* greeting), for a restored one and for a resident one; and a join of a
\* resident session changes nothing of its state
C39_JoinReturnsLog ==
    /\ [](response.type = "joined"
             => response.conversation_history = conversation_to_dict(Resident.conversation))
    /\ [][ (active_agents # 0 /\ response'.type = "joined")
           => (agents' = agents /\ disk' = disk /\ active_agents' = active_agents) ]_vars

\* C40: at the end of every turn the progress percentage in the session
\* state, which is the one written into the checkpoint, is the tracker's
\* progress() for the field values saved in the same checkpoint, whichever
\* action the turn performed
C40_StoredProgressMatchesFields ==
    [][ (response'.type \in CompletedTurnTypes /\ disk'.file = "complete")
        => LET a == agents'[active_agents']
               saved == disk'.data.agent_state
           IN /\ saved.progress_pct = a.session.progress_pct
              /\ saved.progress_pct
                   = calculate_progress(fields_from_dict(NewFields, saved.fields)) ]_vars

===========================================================================
